---- MODULE Spec2Model ----
(***************************************************************************)
(* State-machine model of the SlingshotGame table-soccer client            *)
(* (src/src/App.jsx, src/src/ai/GameAI.js, constants in                    *)
(* src/unnamed/part_001).                                                  *)
(*                                                                         *)
(* Numbers: the program computes with IEEE doubles.  The model keeps every *)
(* length and velocity as an integer number of 1/S pixels and rounds every *)
(* product and quotient toward zero.                                       *)
(***************************************************************************)
EXTENDS Integers, Sequences, FiniteSets, TLC

\* ---------------------------------------------------------------- bounds
\* Fixed-point resolution: S units per pixel.
S == 1000
\* rounding of a velocity component taken along a fixed-point unit vector,
\* in units of 1/S px per frame: each component of the unit vector is
\* truncated to 1/S, so its squared length is within 3/S of 1, and speeds
\* stay at or below 30 px per frame
RoundingTolerance == 100
\* Launches explored per match (since the last startGame / handleRestart).
MaxLaunches == 3
\* Launches explored per online match (local launches and remote moves).
MaxOnlineLaunches == 3
\* Snapshots of the peer that can be on their way to this client at once.
MaxInFlight == 1
\* Rooms the server holds at once.
MaxRooms == 2

\* ------------------------------------------------------------- constants
PLAYER_SIZE == 40
BALL_SIZE == 30
MAX_PULL_DISTANCE == 150
\* POWER_FACTOR = 0.2, in percent
POWER_FACTOR_PCT == 20
\* DAMPING_FACTOR = 0.985, in permille
DAMPING_FACTOR_PERMILLE == 985
\* WALL_BOUNCE_FACTOR = 0.85, in percent
WALL_BOUNCE_FACTOR_PCT == 85
\* BALL_COLLISION_BOUNCE_FACTOR = 0.98, in percent
BALL_COLLISION_BOUNCE_FACTOR_PCT == 98
\* MIN_VELOCITY_THRESHOLD = 0.05, in permille
MIN_VELOCITY_THRESHOLD_PERMILLE == 50
GOAL_HEIGHT == 100
\* AI_POWER_SCALING_FACTOR = 0.5, in percent
AI_POWER_SCALING_FACTOR_PCT == 50
\* board size: fieldWidth / fieldHeight of initialGameState, and the
\* container's max-w-[400px] h-[600px]
fieldWidth == 400
fieldHeight == 600
\* minimum drag distance of handleInteractionEnd (distance < 5 is ignored)
MIN_DRAG_DISTANCE == 5
\* goal depth of the goal check (ball.pos.y < 10)
GOAL_DEPTH == 10
\* win threshold of the goalScored branch (score >= 3)
WIN_SCORE == 3

VS_PLAYER == "vs_player"
VS_AI == "vs_ai"
GAME_MODES == {VS_PLAYER, VS_AI}
\* GAME_MODES.ONLINE, the mode of the multiplayer client
ONLINE == "online"

\* --------------------------------------------------------------- numbers
Abs(a) == IF a < 0 THEN -a ELSE a
Min(a, b) == IF a < b THEN a ELSE b
Max(a, b) == IF a > b THEN a ELSE b
\* quotient rounded toward zero (b > 0)
TDiv(a, b) == IF a >= 0 THEN a \div b ELSE -((-a) \div b)

RECURSIVE SqrtSearch(_, _, _)
SqrtSearch(n, lo, hi) ==
  IF lo >= hi THEN lo
  ELSE LET mid == (lo + hi + 1) \div 2
       IN IF mid * mid <= n THEN SqrtSearch(n, mid, hi)
          ELSE SqrtSearch(n, lo, mid - 1)
\* Math.sqrt, rounded down
Sqrt(n) == SqrtSearch(n, 0, 46340)

MinVelocityThreshold == (MIN_VELOCITY_THRESHOLD_PERMILLE * S) \div 1000

\* ------------------------------------------------------------ disc model
Disc(id, x, y, size, isPlayer, team) ==
  [id |-> id, pos |-> [x |-> x, y |-> y], vel |-> [x |-> 0, y |-> 0],
   size |-> size, isPlayer |-> isPlayer, team |-> team]

\* initialGameState(gameMode): ball, team 1 at the bottom, team 2 at the top
initialBalls ==
  << Disc("ball", (fieldWidth * S) \div 2, (fieldHeight * S) \div 2,
          BALL_SIZE * S, FALSE, 0),
     Disc("team1-player1", (fieldWidth * S * 25) \div 100,
          (fieldHeight * S * 8) \div 10, PLAYER_SIZE * S, TRUE, 1),
     Disc("team1-player2", (fieldWidth * S * 50) \div 100,
          (fieldHeight * S * 8) \div 10, PLAYER_SIZE * S, TRUE, 1),
     Disc("team1-player3", (fieldWidth * S * 75) \div 100,
          (fieldHeight * S * 8) \div 10, PLAYER_SIZE * S, TRUE, 1),
     Disc("team2-player1", (fieldWidth * S * 25) \div 100,
          (fieldHeight * S * 2) \div 10, PLAYER_SIZE * S, TRUE, 2),
     Disc("team2-player2", (fieldWidth * S * 50) \div 100,
          (fieldHeight * S * 2) \div 10, PLAYER_SIZE * S, TRUE, 2),
     Disc("team2-player3", (fieldWidth * S * 75) \div 100,
          (fieldHeight * S * 2) \div 10, PLAYER_SIZE * S, TRUE, 2) >>

NoScore == [team1 |-> 0, team2 |-> 0]

initialGameState(mode) ==
  [balls |-> initialBalls,
   currentTeam |-> 1,
   selectedPlayerId |-> "none",
   isMoving |-> FALSE,
   score |-> NoScore,
   gameMode |-> mode]

NumBalls == Len(initialBalls)
BallIndex == 1..NumBalls
PlayerIds == {initialBalls[i].id : i \in 2..NumBalls}

\* balls.find((b) => b.id === id): the index, 0 when absent
FindIndex(balls, id) ==
  IF \E i \in DOMAIN balls : balls[i].id = id
  THEN CHOOSE i \in DOMAIN balls :
         balls[i].id = id /\ \A k \in DOMAIN balls : balls[k].id = id => i <= k
  ELSE 0

\* ----------------------------------------------------- collision resolver
\* the pairs (i, j), i < j, in the order of the nested loops
RECURSIVE PairsFrom(_, _)
PairsFrom(i, j) ==
  IF i >= NumBalls THEN << >>
  ELSE IF j > NumBalls THEN PairsFrom(i + 1, i + 2)
  ELSE << <<i, j>> >> \o PairsFrom(i, j + 1)
Pairs == PairsFrom(1, 2)

\* restitution mixing of the normal components:
\* (vn * (1 - restitution) + 2 * restitution * other) / 2
\* variant of NewNormal that does not halve the mixed components
NewNormalUnhalved(vn, other) ==
  TDiv(vn * (100 - BALL_COLLISION_BOUNCE_FACTOR_PCT)
       + 2 * BALL_COLLISION_BOUNCE_FACTOR_PCT * other, 100)

NewNormal(vn, other) ==
  TDiv(vn * (100 - BALL_COLLISION_BOUNCE_FACTOR_PCT)
       + 2 * BALL_COLLISION_BOUNCE_FACTOR_PCT * other, 200)

\* body of the inner loop for one pair
\* (nx, ny) = (dx, dy) / distance of a pair of discs
PairNormal(ball1, ball2) ==
  [x |-> TDiv((ball2.pos.x - ball1.pos.x) * S,
              Sqrt((ball2.pos.x - ball1.pos.x) * (ball2.pos.x - ball1.pos.x)
                   + (ball2.pos.y - ball1.pos.y) * (ball2.pos.y - ball1.pos.y))),
   y |-> TDiv((ball2.pos.y - ball1.pos.y) * S,
              Sqrt((ball2.pos.x - ball1.pos.x) * (ball2.pos.x - ball1.pos.x)
                   + (ball2.pos.y - ball1.pos.y) * (ball2.pos.y - ball1.pos.y)))]

\* vel.x * ux + vel.y * uy: the component of a velocity along (ux, uy)
Along(vel, ux, uy) == TDiv(vel.x * ux + vel.y * uy, S)

\* variant of ResolvePair that mixes the velocities but leaves the two
\* discs where they overlap
ResolvePairNoSeparation(balls, i, j) ==
  LET ball1 == balls[i]
      ball2 == balls[j]
      dx == ball2.pos.x - ball1.pos.x
      dy == ball2.pos.y - ball1.pos.y
      minDistance == ball1.size \div 2 + ball2.size \div 2
  IN IF \/ Abs(dx) >= minDistance
        \/ Abs(dy) >= minDistance
        \/ dx * dx >= minDistance * minDistance - dy * dy
        \/ ~(dx * dx + dy * dy > (S * S) \div 1000)
     THEN balls
     ELSE
       LET distance == Sqrt(dx * dx + dy * dy)
           nx == TDiv(dx * S, distance)
           ny == TDiv(dy * S, distance)
           tx == -ny
           ty == nx
           v1n == TDiv(ball1.vel.x * nx + ball1.vel.y * ny, S)
           v1t == TDiv(ball1.vel.x * tx + ball1.vel.y * ty, S)
           v2n == TDiv(ball2.vel.x * nx + ball2.vel.y * ny, S)
           v2t == TDiv(ball2.vel.x * tx + ball2.vel.y * ty, S)
           new_v1n == NewNormal(v1n, v2n)
           new_v2n == NewNormal(v2n, v1n)
           b1 == [ball1 EXCEPT
                    !.pos = ball1.pos,
                    !.vel = [x |-> TDiv(new_v1n * nx + v1t * tx, S),
                             y |-> TDiv(new_v1n * ny + v1t * ty, S)]]
           b2 == [ball2 EXCEPT
                    !.pos = ball2.pos,
                    !.vel = [x |-> TDiv(new_v2n * nx + v2t * tx, S),
                             y |-> TDiv(new_v2n * ny + v2t * ty, S)]]
       IN [balls EXCEPT ![i] = b1, ![j] = b2]

\* variant of ResolvePair without the guard distanceSq > 0.001 (a distance
\* of 0 is taken as one unit)
ResolvePairUnguarded(balls, i, j) ==
  LET ball1 == balls[i]
      ball2 == balls[j]
      dx == ball2.pos.x - ball1.pos.x
      dy == ball2.pos.y - ball1.pos.y
      minDistance == ball1.size \div 2 + ball2.size \div 2
  IN IF \/ Abs(dx) >= minDistance
        \/ Abs(dy) >= minDistance
        \/ dx * dx >= minDistance * minDistance - dy * dy
     THEN balls
     ELSE
       LET distance == Max(1, Sqrt(dx * dx + dy * dy))
           overlap == minDistance - distance
           nx == TDiv(dx * S, distance)
           ny == TDiv(dy * S, distance)
           tx == -ny
           ty == nx
           v1n == TDiv(ball1.vel.x * nx + ball1.vel.y * ny, S)
           v1t == TDiv(ball1.vel.x * tx + ball1.vel.y * ty, S)
           v2n == TDiv(ball2.vel.x * nx + ball2.vel.y * ny, S)
           v2t == TDiv(ball2.vel.x * tx + ball2.vel.y * ty, S)
           new_v1n == NewNormal(v1n, v2n)
           new_v2n == NewNormal(v2n, v1n)
           b1 == [ball1 EXCEPT
                    !.pos = [x |-> ball1.pos.x - TDiv(nx * overlap, 2 * S),
                             y |-> ball1.pos.y - TDiv(ny * overlap, 2 * S)],
                    !.vel = [x |-> TDiv(new_v1n * nx + v1t * tx, S),
                             y |-> TDiv(new_v1n * ny + v1t * ty, S)]]
           b2 == [ball2 EXCEPT
                    !.pos = [x |-> ball2.pos.x + TDiv(nx * overlap, 2 * S),
                             y |-> ball2.pos.y + TDiv(ny * overlap, 2 * S)],
                    !.vel = [x |-> TDiv(new_v2n * nx + v2t * tx, S),
                             y |-> TDiv(new_v2n * ny + v2t * ty, S)]]
       IN [balls EXCEPT ![i] = b1, ![j] = b2]

ResolvePair(balls, i, j) ==
  LET ball1 == balls[i]
      ball2 == balls[j]
      dx == ball2.pos.x - ball1.pos.x
      dy == ball2.pos.y - ball1.pos.y
      minDistance == ball1.size \div 2 + ball2.size \div 2
  IN IF \/ Abs(dx) >= minDistance
        \/ Abs(dy) >= minDistance
        \/ dx * dx >= minDistance * minDistance - dy * dy
        \/ ~(dx * dx + dy * dy > (S * S) \div 1000)
     THEN balls
     ELSE
       LET distance == Sqrt(dx * dx + dy * dy)
           overlap == minDistance - distance
           nx == TDiv(dx * S, distance)
           ny == TDiv(dy * S, distance)
           tx == -ny
           ty == nx
           v1n == TDiv(ball1.vel.x * nx + ball1.vel.y * ny, S)
           v1t == TDiv(ball1.vel.x * tx + ball1.vel.y * ty, S)
           v2n == TDiv(ball2.vel.x * nx + ball2.vel.y * ny, S)
           v2t == TDiv(ball2.vel.x * tx + ball2.vel.y * ty, S)
           new_v1n == NewNormal(v1n, v2n)
           new_v2n == NewNormal(v2n, v1n)
           b1 == [ball1 EXCEPT
                    !.pos = [x |-> ball1.pos.x - TDiv(nx * overlap, 2 * S),
                             y |-> ball1.pos.y - TDiv(ny * overlap, 2 * S)],
                    !.vel = [x |-> TDiv(new_v1n * nx + v1t * tx, S),
                             y |-> TDiv(new_v1n * ny + v1t * ty, S)]]
           b2 == [ball2 EXCEPT
                    !.pos = [x |-> ball2.pos.x + TDiv(nx * overlap, 2 * S),
                             y |-> ball2.pos.y + TDiv(ny * overlap, 2 * S)],
                    !.vel = [x |-> TDiv(new_v2n * nx + v2t * tx, S),
                             y |-> TDiv(new_v2n * ny + v2t * ty, S)]]
       IN [balls EXCEPT ![i] = b1, ![j] = b2]

RECURSIVE CollideFrom(_, _)
CollideFrom(balls, k) ==
  IF k > Len(Pairs) THEN balls
  ELSE LET resolved == ResolvePair(balls, Pairs[k][1], Pairs[k][2])
       IN IF resolved = balls THEN CollideFrom(balls, k + 1)
          ELSE CollideFrom(resolved, k + 1)
\* "Ball-Ball Collision Detection & Response"
Collide(balls) == CollideFrom(balls, 1)

\* ------------------------------------------------------------ integrator
\* -v * WALL_BOUNCE_FACTOR
Bounce(v) == TDiv((-v) * WALL_BOUNCE_FACTOR_PCT, 100)
\* variant of Damp that leaves the velocity as it is
Undamped(v) == v

\* v * DAMPING_FACTOR
Damp(v) == TDiv(v * DAMPING_FACTOR_PERMILLE, 1000)
\* the "Check movement" condition on a damped velocity
ExceedsThreshold(vel) ==
  Abs(vel.x) > MinVelocityThreshold \/ Abs(vel.y) > MinVelocityThreshold

\* body of the second loop for one disc: position update, wall collision
\* with the goal openings, clamp of Player discs, damping, settle snap
\* variant of MoveBall without walls: position, damping and the threshold
MoveBallNoWalls(ball, containerWidth, containerHeight) ==
  LET damped == [x |-> Damp(ball.vel.x), y |-> Damp(ball.vel.y)]
  IN [ball EXCEPT
        !.pos = [x |-> ball.pos.x + ball.vel.x, y |-> ball.pos.y + ball.vel.y],
        !.vel = IF ExceedsThreshold(damped) THEN damped
                ELSE [x |-> 0, y |-> 0]]

\* variant of MoveBall whose top and bottom edges reflect every disc along
\* their whole length
MoveBallSolidEdges(ball, containerWidth, containerHeight) ==
  LET radius == ball.size \div 2
      x1 == ball.pos.x + ball.vel.x
      y1 == ball.pos.y + ball.vel.y
      reflTop == y1 - radius < 0
      y2 == IF reflTop THEN radius ELSE y1
      vy2 == IF reflTop THEN Bounce(ball.vel.y) ELSE ball.vel.y
      reflBottom == y2 + radius > containerHeight
      y3 == IF reflBottom THEN containerHeight - radius ELSE y2
      vy3 == IF reflBottom THEN Bounce(vy2) ELSE vy2
      reflLeft == x1 - radius < 0
      x2 == IF reflLeft THEN radius ELSE x1
      vx2 == IF reflLeft THEN Bounce(ball.vel.x) ELSE ball.vel.x
      reflRight == x2 + radius > containerWidth
      x3 == IF reflRight THEN containerWidth - radius ELSE x2
      vx3 == IF reflRight THEN Bounce(vx2) ELSE vx2
      x4 == IF ball.isPlayer
            THEN Max(radius, Min(containerWidth - radius, x3)) ELSE x3
      y4 == IF ball.isPlayer
            THEN Max(radius, Min(containerHeight - radius, y3)) ELSE y3
      damped == [x |-> Damp(vx3), y |-> Damp(vy3)]
  IN [ball EXCEPT
        !.pos = [x |-> x4, y |-> y4],
        !.vel = IF ExceedsThreshold(damped) THEN damped
                ELSE [x |-> 0, y |-> 0]]

MoveBall(ball, containerWidth, containerHeight) ==
  LET radius == ball.size \div 2
      goalX == containerWidth \div 2
      halfGoalWidth == (GOAL_HEIGHT * S) \div 2
      x1 == ball.pos.x + ball.vel.x
      y1 == ball.pos.y + ball.vel.y
      outsideMouth == x1 < goalX - halfGoalWidth \/ x1 > goalX + halfGoalWidth
      reflTop == y1 - radius < 0 /\ (outsideMouth \/ ball.isPlayer)
      y2 == IF reflTop THEN radius ELSE y1
      vy2 == IF reflTop THEN Bounce(ball.vel.y) ELSE ball.vel.y
      reflBottom == y2 + radius > containerHeight
                    /\ (outsideMouth \/ ball.isPlayer)
      y3 == IF reflBottom THEN containerHeight - radius ELSE y2
      vy3 == IF reflBottom THEN Bounce(vy2) ELSE vy2
      reflLeft == x1 - radius < 0
      x2 == IF reflLeft THEN radius ELSE x1
      vx2 == IF reflLeft THEN Bounce(ball.vel.x) ELSE ball.vel.x
      reflRight == x2 + radius > containerWidth
      x3 == IF reflRight THEN containerWidth - radius ELSE x2
      vx3 == IF reflRight THEN Bounce(vx2) ELSE vx2
      x4 == IF ball.isPlayer
            THEN Max(radius, Min(containerWidth - radius, x3)) ELSE x3
      y4 == IF ball.isPlayer
            THEN Max(radius, Min(containerHeight - radius, y3)) ELSE y3
      damped == [x |-> Damp(vx3), y |-> Damp(vy3)]
  IN [ball EXCEPT
        !.pos = [x |-> x4, y |-> y4],
        !.vel = IF ExceedsThreshold(damped) THEN damped
                ELSE [x |-> 0, y |-> 0]]

\* "Update Position, Wall Collision, Damping" over all discs
MoveAll(balls, containerWidth, containerHeight) ==
  [i \in DOMAIN balls |-> MoveBall(balls[i], containerWidth, containerHeight)]

\* isStillMoving after the loop: some disc passed the "Check movement" test
\* (the others were snapped to zero)
AnyMoving(balls) == \E i \in DOMAIN balls : ExceedsThreshold(balls[i].vel)

\* -------------------------------------------------- turn & scoring machine
\* the two goal checks on the Ball after the position update
InTopGoal(ball, containerWidth) ==
  /\ ball.id = "ball"
  /\ ball.pos.y < GOAL_DEPTH * S
  /\ ball.pos.x > containerWidth \div 2 - (GOAL_HEIGHT * S) \div 2
  /\ ball.pos.x < containerWidth \div 2 + (GOAL_HEIGHT * S) \div 2

InBottomGoal(ball, containerWidth, containerHeight) ==
  /\ ball.id = "ball"
  /\ ball.pos.y > containerHeight - GOAL_DEPTH * S
  /\ ball.pos.x > containerWidth \div 2 - (GOAL_HEIGHT * S) \div 2
  /\ ball.pos.x < containerWidth \div 2 + (GOAL_HEIGHT * S) \div 2

\* team credited by the top-goal check ("team 2 scores")
TopGoalScorer == 2
\* team credited by the bottom-goal check ("team 1 scores")
BottomGoalScorer == 1

AddGoal(score, team) ==
  IF team = 1 THEN [score EXCEPT !.team1 = @ + 1]
  ELSE [score EXCEPT !.team2 = @ + 1]

\* lastTick when the last step was not a frame
NoTick == [top |-> FALSE, bottom |-> FALSE, stillMoving |-> FALSE]

\* a turn change that leaves the acting team in place
SameTeam(team) == team

\* currentTeam === 1 ? 2 : 1
OtherTeam(team) == IF team = 1 THEN 2 ELSE 1

\* a frame that looks at the settle test before the goal test
SettleFirst(goalScored, shouldChangeTurn) ==
  IF shouldChangeTurn THEN "settle" ELSE IF goalScored THEN "goal" ELSE "move"

\* which return of the updater a frame takes: "if (goalScored)" comes
\* first, then "if (shouldChangeTurn)", then the plain update
Branch(goalScored, shouldChangeTurn) ==
  IF goalScored THEN "goal" ELSE IF shouldChangeTurn THEN "settle" ELSE "move"

\* variant of RoundReset that hands the first turn to the other team
RoundResetOtherTeam(prev, newScore) ==
  [initialGameState(prev.gameMode) EXCEPT
     !.score = newScore, !.currentTeam = OtherTeam(prev.currentTeam)]

\* "Reset the game with updated score if goal scored": the initial state of
\* the mode with the new score
RoundReset(prev, newScore) ==
  [initialGameState(prev.gameMode) EXCEPT !.score = newScore]

\* the three returns of the updater, from what the loops and the goal
\* checks found in this frame
FrameOutcome(prev, newBalls, isStillMoving, top, bottom) ==
  LET score1 == IF top THEN AddGoal(prev.score, TopGoalScorer) ELSE prev.score
      newScore == IF bottom THEN AddGoal(score1, BottomGoalScorer) ELSE score1
      goalScored == top \/ bottom
      shouldChangeTurn == prev.isMoving /\ ~isStillMoving
      found == [top |-> top, bottom |-> bottom, stillMoving |-> isStillMoving]
      branch == Branch(goalScored, shouldChangeTurn)
  IN IF branch = "goal"
     THEN [state |-> RoundReset(prev, newScore),
           goalScored |-> TRUE, turnChanged |-> FALSE, found |-> found]
     ELSE IF branch = "settle"
     THEN [state |-> [prev EXCEPT !.balls = newBalls,
                                  !.isMoving = FALSE,
                                  !.currentTeam = OtherTeam(prev.currentTeam),
                                  !.selectedPlayerId = "none"],
           goalScored |-> FALSE, turnChanged |-> TRUE, found |-> found]
     ELSE [state |-> [prev EXCEPT !.balls = newBalls,
                                  !.isMoving = isStillMoving],
           goalScored |-> FALSE, turnChanged |-> FALSE, found |-> found]

\* "Check for goals" on the discs the loops produced: isStillMoving and the
\* two goal checks on newBalls.find(b => b.id === "ball")
GoalChecks(prev, newBalls, containerWidth, containerHeight) ==
  FrameOutcome(prev, newBalls, AnyMoving(newBalls),
    InTopGoal(newBalls[FindIndex(newBalls, "ball")], containerWidth),
    InBottomGoal(newBalls[FindIndex(newBalls, "ball")], containerWidth,
                 containerHeight))

\* The state updater of updatePhysics, as a function of prev and of the
\* container size.  Returns the next gameState with the facts the updater's
\* side effects depend on.
updatePhysics(prev, containerWidth, containerHeight) ==
  IF ~prev.isMoving
  THEN [state |-> prev, goalScored |-> FALSE, turnChanged |-> FALSE,
        found |-> NoTick]
  ELSE GoalChecks(prev,
         MoveAll(Collide(prev.balls), containerWidth, containerHeight),
         containerWidth, containerHeight)

\* ------------------------------------------------------------ launching
\* The drag vector (startDragPos - currentDragPos), in whole pixels.
\* drag distance in 1/S pixels (Math.sqrt(dx * dx + dy * dy))
DragDistance(v) == (Sqrt((v[1] * v[1] + v[2] * v[2]) * 10000) * S) \div 100

\* velocity handleInteractionEnd gives the selected disc:
\* (cos(angle), sin(angle)) * min(distance, MAX_PULL_DISTANCE) * POWER_FACTOR
\* variant of LaunchVelocity that does not clamp the distance
LaunchVelocityUnclamped(v) ==
  LET raw == DragDistance(v)
      initialSpeed == (raw * POWER_FACTOR_PCT) \div 100
      directionX == TDiv(v[1] * S * S, raw)
      directionY == TDiv(v[2] * S * S, raw)
  IN [x |-> TDiv(directionX * initialSpeed, S),
      y |-> TDiv(directionY * initialSpeed, S)]

LaunchVelocity(v) ==
  LET raw == DragDistance(v)
      distance == Min(raw, MAX_PULL_DISTANCE * S)
      initialSpeed == (distance * POWER_FACTOR_PCT) \div 100
      directionX == TDiv(v[1] * S * S, raw)
      directionY == TDiv(v[2] * S * S, raw)
  IN [x |-> TDiv(directionX * initialSpeed, S),
      y |-> TDiv(directionY * initialSpeed, S)]

\* prev.balls.map(ball => ball.id === id ? {...ball, vel} : ball)
SetVelocity(balls, id, vel) ==
  [i \in DOMAIN balls |->
     IF balls[i].id = id THEN [balls[i] EXCEPT !.vel = vel] ELSE balls[i]]

\* the state updater of handleInteractionEnd
LaunchUpdater(prev, id, vel) ==
  [prev EXCEPT !.balls = SetVelocity(prev.balls, id, vel), !.isMoving = TRUE]

\* calculateAIMove returned null
NoMove == [player |-> "none", shot |-> <<0, 0>>]

\* gameRooms has no room
NoRoom == [players |-> << >>, gameState |-> << >>, lastMove |-> "none",
           turnTimer |-> 0, spectators |-> 0]

\* the ids of the rooms gameRooms can hold at once
RoomIds == 1..MaxRooms

\* the sockets that connect to the server, and the two of a match
Sockets == { "socket1", "socket2", "socket3" }
MatchSockets == { "socket1", "socket2" }

\* calculateAIMove returned null, or was not called
NoPlan == [player |-> "none", angle |-> 0, power |-> 0, bank |-> FALSE]

\* no opponentMove event
NoRemoteMove ==
  [playerId |-> "none", playerPos |-> [x |-> 0, y |-> 0],
   direction |-> [x |-> 0, y |-> 0], power |-> 0]

\* the move handleInteractionEnd hands to sendGameMove in an online match:
\* the disc, its position, the unit vector (cos(angle), sin(angle)) and
\* the power min(distance, MAX_PULL_DISTANCE) * POWER_FACTOR
SentMove(balls, id, v) ==
  [playerId |-> id,
   playerPos |-> balls[FindIndex(balls, id)].pos,
   direction |-> [x |-> TDiv(v[1] * S * S, DragDistance(v)),
                  y |-> TDiv(v[2] * S * S, DragDistance(v))],
   power |-> (Min(DragDistance(v), MAX_PULL_DISTANCE * S)
                * POWER_FACTOR_PCT) \div 100]

\* an updater that replays the velocity and leaves the disc where it is
opponentMoveKeepPos(prev, m) ==
  IF FindIndex(prev.balls, m.playerId) = 0 THEN prev
  ELSE LaunchUpdater(prev, m.playerId,
                     [x |-> TDiv(m.direction.x * m.power, S),
                      y |-> TDiv(m.direction.y * m.power, S)])

\* the state updater of the opponentMove callback: the disc is put at
\* move.playerPos with velocity move.direction * move.power and isMoving
\* is set; an unknown disc leaves prev as it is
opponentMoveUpdater(prev, m) ==
  IF FindIndex(prev.balls, m.playerId) = 0 THEN prev
  ELSE [prev EXCEPT
          !.balls[FindIndex(prev.balls, m.playerId)].pos = m.playerPos,
          !.balls[FindIndex(prev.balls, m.playerId)].vel =
             [x |-> TDiv(m.direction.x * m.power, S),
              y |-> TDiv(m.direction.y * m.power, S)],
          !.isMoving = TRUE]

\* executeAIMove(aiMove, setGameState): the updater it hands to setGameState;
\* the move names its disc and carries the shot as the vector
\* power * (cos(angle), sin(angle))
executeAIMove(move, prev) ==
  IF prev.currentTeam # 2 THEN prev
  ELSE IF FindIndex(prev.balls, move.player) = 0 THEN prev
  ELSE LaunchUpdater(prev, move.player, LaunchVelocity(move.shot))

\* the fallback shot of handleAIMove: straight to the left with
\* MAX_PULL_DISTANCE * POWER_FACTOR * AI_POWER_SCALING_FACTOR
FallbackVelocity ==
  [x |-> 0 - (MAX_PULL_DISTANCE * S * POWER_FACTOR_PCT
               * AI_POWER_SCALING_FACTOR_PCT) \div 10000,
   y |-> 0]

\* gameState.balls.find(b => b.isPlayer && b.team === 2), 0 when none
FirstAiPlayer(balls) ==
  IF \E i \in DOMAIN balls : balls[i].isPlayer /\ balls[i].team = 2
  THEN CHOOSE i \in DOMAIN balls :
         /\ balls[i].isPlayer /\ balls[i].team = 2
         /\ \A j \in DOMAIN balls :
              (balls[j].isPlayer /\ balls[j].team = 2) => i <= j
  ELSE 0

\* ------------------------------------------------------------------ state
VARIABLES
  gameState,              \* useState gameState: balls, currentTeam,
                          \*   selectedPlayerId, isMoving, score, gameMode
  gameMode,               \* useState gameMode
  showGameModeSelection,  \* useState showGameModeSelection
  isDragging,             \* useState isDragging
  dragVector,             \* startDragPos - currentDragPos of the drag in
                          \*   progress, whole pixels (<<0, 0>> when none)
  isAiProcessing,         \* useState isAiProcessing
  gameOver,               \* useState gameOver
  winner,                 \* useState winner (0 is null)
  aiTimeout,              \* aiTimeoutRef.current holds a pending timer
  animationFrame,         \* animationFrameRef.current holds a pending frame
  effectPending,          \* a render caused by the AI effect's own
                          \*   setIsAiProcessing(true) has not run yet
  launches,               \* launches since the match started
  launchTeam,             \* history: currentTeam at the launch in progress
  lastEvent,              \* history: what the last step did
  lastTick,               \* history: what the last frame found
  playerTeam,             \* useState playerTeam (0 is null), online
  isMyTurn,               \* useState isMyTurn, online
  callbackTeam,           \* playerTeam as the socket callbacks read it: its
                          \*   value in the render setupSocketCallbacks()
                          \*   ran in (1, its initial value, at first)
  showMatchmakingQueue,   \* useState showMatchmakingQueue, online
  moveTimer,              \* the setTimeout(0) of opponentMove is pending
  inFlight,               \* snapshots the peer has sent, not yet received
  peerSynced,             \* the peer simulates the match this client sees
  aiMove,                 \* the move calculateAIMove returned to
                          \*   handleAIMove (NoMove is null)
  move,                   \* the move of an opponentMove event a request
                          \*   carries (NoRemoteMove when none)
  plan,                   \* the plan calculateAIMove returned to a request
                          \*   that called the planner alone (NoPlan when
                          \*   it returned null or was not called)
  keptBack,               \* history: the snapshot gameStateUpdated did not
                          \*   apply because discs were moving (<< >> none)
  sentState,              \* history: the snapshot the last step handed to
                          \*   updateGameState (<< >> when it sent none)
  replaced,               \* history: the local state the last
                          \*   gameStateUpdated call received as prevState
                          \*   (<< >> after any other step)
  matchmakingQueue,       \* server: matchmakingQueue, the sockets waiting
  gameRooms,              \* server: gameRooms, by room id (NoRoom where
                          \*   it has no room of that id)
  sockets,                \* server: each socket is "new" (not yet
                          \*   connected), "connected" or "gone"
  emitted,                \* history: the events the last step emitted
  losingTeam              \* history: losingTeam of the turnTimeout the
                          \*   last step emitted (0 when it emitted none)

vars == << gameState, gameMode, showGameModeSelection, isDragging, dragVector,
           isAiProcessing, gameOver, winner, aiTimeout, animationFrame,
           effectPending, launches, launchTeam, lastEvent, lastTick,
           playerTeam, isMyTurn, callbackTeam, showMatchmakingQueue,
           moveTimer, inFlight, peerSynced, aiMove, move, plan, keptBack, sentState,
           replaced, matchmakingQueue, gameRooms, sockets, emitted,
           losingTeam >>

\* the state of the server (src/server/index.js)
serverVars == << matchmakingQueue, gameRooms, sockets, emitted, losingTeam >>

\* the requests the launch handlers are called with
requestVars == << aiMove, move, plan >>

\* what only the multiplayer client changes
onlineVars == << playerTeam, isMyTurn, callbackTeam, showMatchmakingQueue,
                moveTimer, inFlight >>

\* what only the AI trigger effect changes
aiVars == << isAiProcessing, aiTimeout, effectPending >>

\* the board (containerRef) is rendered: no menu, no matchmaking queue,
\* no game-over screen (callers pass menu \/ queue as menu)
BoardShown(menu, over) == ~menu /\ ~over

\* container.offsetWidth / offsetHeight of the element the physics effect
\* captured: the board's size while it is in the document, 0 once React has
\* unmounted it
ContainerWidth(menu, over) == IF BoardShown(menu, over) THEN fieldWidth * S ELSE 0
ContainerHeight(menu, over) == IF BoardShown(menu, over) THEN fieldHeight * S ELSE 0

\* variant of PhysicsEffect whose frame callback does not request the next
\* frame: a frame is pending only after the effect has run
PhysicsEffectOnce(oldMoving, newMoving, frame, menu, over) ==
  oldMoving # newMoving /\ BoardShown(menu, over) /\ newMoving

\* Physics effect, deps [gameState.isMoving]: on a change of isMoving the
\* cleanup cancels the frame, the body returns when there is no container
\* and otherwise requests a frame while isMoving.
PhysicsEffect(oldMoving, newMoving, frame, menu, over) ==
  IF oldMoving = newMoving THEN frame
  ELSE BoardShown(menu, over) /\ newMoving

\* a trigger condition that does not look at the acting team
AiTurnAnyTeam(gs, mode, menu, processing) ==
  /\ mode = VS_AI
  /\ ~gs.isMoving
  /\ ~menu
  /\ ~processing

\* a trigger condition that does not look at isAiProcessing
AiTurnUnflagged(gs, mode, menu, processing) ==
  /\ mode = VS_AI
  /\ gs.currentTeam = 2
  /\ ~gs.isMoving
  /\ ~menu

\* condition of the AI trigger effect
AiTurnDetected(gs, mode, menu, processing) ==
  /\ mode = VS_AI
  /\ gs.currentTeam = 2
  /\ ~gs.isMoving
  /\ ~menu
  /\ ~processing

\* The render that follows a handler: the physics effect, and the AI
\* trigger effect (cleanup clears any timer; when the condition holds it
\* sets isAiProcessing and schedules the 500 ms timer, which makes React
\* render once more: effectPending).
Render(gs, mode, menu, over, processing, frame) ==
  LET detected == AiTurnDetected(gs, mode, menu, processing)
  IN /\ animationFrame' = PhysicsEffect(gameState.isMoving, gs.isMoving,
                                         frame, menu, over)
     /\ isAiProcessing' = (processing \/ detected)
     /\ aiTimeout' = detected
     /\ effectPending' = detected

\* Pointer input.  One pointer is modelled: while it holds a disc
\* (isDragging) no other disc is clicked or grabbed.
\* drag vectors the pointer can produce for the disc it holds
LocalDragVectors(id) ==
  CASE id = "team1-player1" -> { <<80, -140>>, <<3, 0>> }
    [] id = "team1-player2" -> { <<70, -150>> }
    [] id = "team1-player3" -> { <<150, -80>>, <<0, -5>> }
    [] id = "team2-player1" -> { <<80, 140>> }
    [] id = "team2-player2" -> { <<0, -5>> }
    [] OTHER -> { }

\* drag vectors of an online match, of this client and of the peer
OnlineDragVectors(id) ==
  CASE id = "team1-player1" -> { <<80, -140>> }
    [] id = "team1-player3" -> { <<0, -5>> }
    [] id = "team2-player1" -> { <<80, 140>> }
    [] OTHER -> { }

DragVectors(mode, id) ==
  IF mode = ONLINE THEN OnlineDragVectors(id) ELSE LocalDragVectors(id)

Init ==
  /\ gameState = initialGameState(VS_PLAYER)
  /\ gameMode = VS_PLAYER
  /\ showGameModeSelection = TRUE
  /\ isDragging = FALSE
  /\ dragVector = <<0, 0>>
  /\ isAiProcessing = FALSE
  /\ gameOver = FALSE
  /\ winner = 0
  /\ aiTimeout = FALSE
  /\ animationFrame = FALSE
  /\ effectPending = FALSE
  /\ launches = 0
  /\ launchTeam = 0
  /\ lastEvent = "init"
  /\ lastTick = NoTick
  /\ playerTeam = 0
  /\ isMyTurn = TRUE
  /\ callbackTeam = 1
  /\ showMatchmakingQueue = FALSE
  /\ moveTimer = FALSE
  /\ inFlight = << >>
  /\ peerSynced = FALSE
  /\ keptBack = << >>
  /\ sentState = << >>
  /\ replaced = << >>
  /\ aiMove = NoMove
  /\ move = NoRemoteMove
  /\ plan = NoPlan
  /\ matchmakingQueue = << >>
  /\ gameRooms = [roomId \in RoomIds |-> NoRoom]
  /\ sockets = [socket \in Sockets |-> "new"]
  /\ emitted = {}
  /\ losingTeam = 0

\* startGame(mode), from the game menu
startGame(mode) ==
  /\ ~effectPending
  /\ showGameModeSelection
  /\ gameMode' = mode
  /\ gameState' = initialGameState(mode)
  /\ showGameModeSelection' = FALSE
  /\ gameOver' = FALSE
  /\ winner' = 0
  /\ Render(gameState', mode, FALSE, FALSE, FALSE, animationFrame)
  /\ launches' = 0
  /\ launchTeam' = 0
  /\ lastEvent' = "startGame"
  /\ lastTick' = NoTick
  /\ UNCHANGED requestVars
  /\ sentState' = << >>
  /\ replaced' = << >>
  /\ UNCHANGED serverVars
  /\ keptBack' = << >>
  /\ UNCHANGED << isDragging, dragVector, onlineVars, peerSynced >>

\* a guard that lets a disc of either team be picked
MaySelectAnyTeam(gs, playerId) ==
  /\ ~gs.isMoving
  /\ FindIndex(gs.balls, playerId) # 0

\* the guard shared by selectPlayer and handleInteractionStart; the
\* multiplayer client adds, in online mode, that the disc is of playerTeam
MaySelect(gs, playerId) ==
  /\ ~gs.isMoving
  /\ FindIndex(gs.balls, playerId) # 0
  /\ gs.balls[FindIndex(gs.balls, playerId)].team = gs.currentTeam
  /\ gameMode = ONLINE
       => gs.balls[FindIndex(gs.balls, playerId)].team = playerTeam

\* selectPlayer(playerId): onClick of a disc
selectPlayer(playerId) ==
  /\ ~effectPending
  /\ ~isDragging
  /\ BoardShown(showGameModeSelection \/ showMatchmakingQueue, gameOver)
  /\ MaySelect(gameState, playerId)
  /\ gameState' = [gameState EXCEPT !.selectedPlayerId = playerId]
  /\ Render(gameState', gameMode, showGameModeSelection, gameOver,
            isAiProcessing, animationFrame)
  /\ lastEvent' = "selectPlayer"
  /\ lastTick' = NoTick
  /\ UNCHANGED requestVars
  /\ sentState' = << >>
  /\ replaced' = << >>
  /\ UNCHANGED serverVars
  /\ UNCHANGED keptBack
  /\ UNCHANGED << gameMode, showGameModeSelection, isDragging, dragVector,
                  gameOver, winner, launches, launchTeam, onlineVars,
                  peerSynced >>

\* handleInteractionStart(e, playerId): onMouseDown / onTouchStart of a disc
handleInteractionStart(playerId) ==
  /\ ~effectPending
  /\ ~isDragging
  /\ BoardShown(showGameModeSelection \/ showMatchmakingQueue, gameOver)
  /\ MaySelect(gameState, playerId)
  /\ gameState' = [gameState EXCEPT !.selectedPlayerId = playerId]
  /\ isDragging' = TRUE
  /\ dragVector' = <<0, 0>>
  /\ Render(gameState', gameMode, showGameModeSelection, gameOver,
            isAiProcessing, FALSE)
  /\ lastEvent' = "dragStart"
  /\ lastTick' = NoTick
  /\ UNCHANGED requestVars
  /\ sentState' = << >>
  /\ replaced' = << >>
  /\ UNCHANGED serverVars
  /\ UNCHANGED keptBack
  /\ UNCHANGED << gameMode, showGameModeSelection, gameOver, winner,
                  launches, launchTeam, onlineVars, peerSynced >>

\* handleInteractionMove(e): the pointer moves while dragging
handleInteractionMove(v) ==
  /\ ~effectPending
  /\ isDragging
  /\ v \in DragVectors(gameMode, gameState.selectedPlayerId)
  /\ dragVector' = v
  /\ lastEvent' = "dragMove"
  /\ lastTick' = NoTick
  /\ UNCHANGED requestVars
  /\ sentState' = << >>
  /\ replaced' = << >>
  /\ UNCHANGED serverVars
  /\ UNCHANGED keptBack
  /\ UNCHANGED << gameState, gameMode, showGameModeSelection, isDragging,
                  isAiProcessing, gameOver, winner, aiTimeout, animationFrame,
                  effectPending, launches, launchTeam, onlineVars,
                  peerSynced >>

\* handleInteractionEnd(): mouseup / touchend on the window while dragging
handleInteractionEnd ==
  /\ gameMode # ONLINE
  /\ ~effectPending
  /\ isDragging
  /\ isDragging' = FALSE
  /\ dragVector' = <<0, 0>>
  /\ lastTick' = NoTick
  /\ UNCHANGED requestVars
  /\ sentState' = << >>
  /\ replaced' = << >>
  /\ UNCHANGED serverVars
  /\ UNCHANGED keptBack
  /\ LET selected == FindIndex(gameState.balls, gameState.selectedPlayerId)
         distance == Min(DragDistance(dragVector), MAX_PULL_DISTANCE * S)
     IN IF selected = 0 \/ distance < MIN_DRAG_DISTANCE * S
        THEN /\ lastEvent' = "dragIgnored"
             /\ UNCHANGED << gameState, isAiProcessing, aiTimeout,
                             animationFrame, effectPending, launches,
                             launchTeam >>
        ELSE /\ launches < MaxLaunches
             /\ gameState' = LaunchUpdater(gameState,
                                           gameState.selectedPlayerId,
                                           LaunchVelocity(dragVector))
             /\ Render(gameState', gameMode, showGameModeSelection, gameOver,
                       isAiProcessing, animationFrame)
             /\ launches' = launches + 1
             /\ launchTeam' = gameState.currentTeam
             /\ lastEvent' = "launch"
  /\ UNCHANGED << gameMode, showGameModeSelection, gameOver, winner,
                  onlineVars, peerSynced >>

\* what a frame of the local game does with the updater's result r: the
\* new gameState, setGameOver / setWinner on a deciding goal,
\* setIsAiProcessing(false) when the turn of team 2 ends, and the render
ApplyFrame(r) ==
  LET over == r.goalScored /\ (r.state.score.team1 >= WIN_SCORE
                               \/ r.state.score.team2 >= WIN_SCORE)
      processing == IF r.turnChanged /\ gameState.currentTeam = 2
                    THEN FALSE ELSE isAiProcessing
  IN /\ gameState' = r.state
     /\ gameOver' = (gameOver \/ over)
     /\ winner' = IF over
                  THEN (IF r.state.score.team1 >= WIN_SCORE THEN 1 ELSE 2)
                  ELSE winner
     /\ Render(r.state, gameMode, showGameModeSelection, gameOver',
               processing, TRUE)
     /\ lastEvent' = IF r.goalScored THEN "goal"
                     ELSE IF r.turnChanged THEN "settle" ELSE "tick"
     /\ lastTick' = r.found
     /\ UNCHANGED requestVars
     /\ sentState' = << >>
     /\ replaced' = << >>
     /\ UNCHANGED serverVars
     /\ UNCHANGED keptBack

\* one animation frame: updatePhysics, with its side effects
\* (setGameOver / setWinner on a goal, setIsAiProcessing(false) on a turn
\* change of team 2) and the frame it requests for itself
Tick ==
  /\ gameMode # ONLINE
  /\ ~effectPending
  /\ animationFrame
  /\ ApplyFrame(updatePhysics(gameState,
                  ContainerWidth(showGameModeSelection, gameOver),
                  ContainerHeight(showGameModeSelection, gameOver)))
  /\ UNCHANGED << gameMode, showGameModeSelection, isDragging, dragVector,
                  launches, launchTeam, onlineVars, peerSynced >>

\* handleRestart(): the Restart button of the board, Play Again of the
\* game-over screen
handleRestart ==
  /\ ~effectPending
  /\ ~showGameModeSelection
  /\ ~showMatchmakingQueue
  /\ gameState' = initialGameState(gameMode)
  /\ gameOver' = FALSE
  /\ winner' = 0
  /\ Render(gameState', gameMode, showGameModeSelection, FALSE,
            isAiProcessing, animationFrame)
  /\ launches' = 0
  /\ launchTeam' = 0
  /\ peerSynced' = FALSE
  /\ lastEvent' = "restart"
  /\ lastTick' = NoTick
  /\ UNCHANGED requestVars
  /\ sentState' = << >>
  /\ replaced' = << >>
  /\ UNCHANGED serverVars
  /\ keptBack' = << >>
  /\ UNCHANGED << gameMode, showGameModeSelection, isDragging, dragVector,
                  onlineVars >>

\* returnToModeSelection(): the Menu button of the board, Main Menu of the
\* game-over screen
returnToModeSelection ==
  /\ gameMode # ONLINE
  /\ ~effectPending
  /\ ~showGameModeSelection
  /\ showGameModeSelection' = TRUE
  /\ Render(gameState, gameMode, TRUE, gameOver, isAiProcessing,
            animationFrame)
  /\ lastEvent' = "menu"
  /\ lastTick' = NoTick
  /\ UNCHANGED requestVars
  /\ sentState' = << >>
  /\ replaced' = << >>
  /\ UNCHANGED serverVars
  /\ UNCHANGED keptBack
  /\ UNCHANGED << gameState, gameMode, isDragging, dragVector, gameOver,
                  winner, launches, launchTeam, onlineVars, peerSynced >>

\* The render caused by the AI effect's setIsAiProcessing(true):
\* isAiProcessing is a dependency of the effect, so its cleanup runs and
\* clears the timer it has just scheduled; the condition is now false and
\* nothing is scheduled again.
AiEffectRerun ==
  /\ effectPending
  /\ effectPending' = FALSE
  /\ aiTimeout' = FALSE
  /\ lastEvent' = "render"
  /\ lastTick' = NoTick
  /\ UNCHANGED requestVars
  /\ sentState' = << >>
  /\ replaced' = << >>
  /\ UNCHANGED serverVars
  /\ UNCHANGED keptBack
  /\ UNCHANGED << gameState, gameMode, showGameModeSelection, isDragging,
                  dragVector, isAiProcessing, gameOver, winner,
                  animationFrame, launches, launchTeam, onlineVars,
                  peerSynced >>

\* ------------------------------------------------- the multiplayer client
\* Physics effect of the multiplayer client, deps [gameState.isMoving,
\* showGameModeSelection, gameMode, playerTeam, roomId]: when a dependency
\* changed the cleanup cancels the frame, the body returns when there is no
\* container or the menu is shown and otherwise requests a frame while
\* isMoving.
OnlinePhysicsEffect(depsChanged, newMoving, frame, shown) ==
  IF ~depsChanged THEN frame ELSE shown /\ newMoving

\* the match of this client is decided
MatchDecided(score) == score.team1 >= WIN_SCORE \/ score.team2 >= WIN_SCORE

\* startGame(GAME_MODES.ONLINE): connect and join the matchmaking queue
startOnlineGame ==
  /\ showGameModeSelection
  /\ gameMode' = ONLINE
  /\ showGameModeSelection' = FALSE
  /\ showMatchmakingQueue' = TRUE
  /\ animationFrame' = FALSE
  /\ inFlight' = << >>
  /\ peerSynced' = FALSE
  /\ lastEvent' = "startOnlineGame"
  /\ lastTick' = NoTick
  /\ UNCHANGED requestVars
  /\ sentState' = << >>
  /\ replaced' = << >>
  /\ UNCHANGED serverVars
  /\ keptBack' = << >>
  /\ callbackTeam' = (IF playerTeam = 0 THEN 1 ELSE playerTeam)
  /\ UNCHANGED << gameState, isDragging, dragVector, gameOver, winner,
                  launches, launchTeam, playerTeam, isMyTurn, moveTimer,
                  aiVars >>

\* matchFound({roomId, team}): the server paired this client with a peer
\* and, with the gameStart that follows it, started the match; gameStart
\* sets isMyTurn from the playerTeam its closure holds
matchFound(team) ==
  /\ gameMode = ONLINE
  /\ showMatchmakingQueue
  /\ playerTeam' = team
  /\ isMyTurn' = (callbackTeam = 1)
  /\ UNCHANGED callbackTeam
  /\ showMatchmakingQueue' = FALSE
  /\ gameState' = initialGameState(ONLINE)
  /\ showGameModeSelection' = FALSE
  /\ animationFrame' = FALSE
  /\ inFlight' = << >>
  /\ peerSynced' = TRUE
  /\ launches' = 0
  /\ launchTeam' = 0
  /\ lastEvent' = "matchFound"
  /\ lastTick' = NoTick
  /\ UNCHANGED requestVars
  /\ sentState' = << >>
  /\ replaced' = << >>
  /\ UNCHANGED serverVars
  /\ keptBack' = << >>
  /\ UNCHANGED << gameMode, isDragging, dragVector, gameOver, winner,
                  moveTimer, aiVars >>

\* handleInteractionEnd() of the multiplayer client in online mode
onlineInteractionEnd ==
  /\ gameMode = ONLINE
  /\ isDragging
  /\ isDragging' = FALSE
  /\ dragVector' = <<0, 0>>
  /\ lastTick' = NoTick
  /\ UNCHANGED requestVars
  /\ sentState' = << >>
  /\ replaced' = << >>
  /\ UNCHANGED serverVars
  /\ UNCHANGED keptBack
  /\ LET selected == FindIndex(gameState.balls, gameState.selectedPlayerId)
         distance == Min(DragDistance(dragVector), MAX_PULL_DISTANCE * S)
     IN IF selected = 0 \/ distance < MIN_DRAG_DISTANCE * S
        THEN /\ lastEvent' = "dragIgnored"
             /\ UNCHANGED << gameState, animationFrame, launches,
                             launchTeam, isMyTurn >>
        ELSE /\ launches < MaxOnlineLaunches
             /\ isMyTurn' = FALSE
             /\ gameState' = LaunchUpdater(gameState,
                                           gameState.selectedPlayerId,
                                           LaunchVelocity(dragVector))
             /\ animationFrame' =
                  OnlinePhysicsEffect(~gameState.isMoving, TRUE,
                    animationFrame,
                    BoardShown(showGameModeSelection \/ showMatchmakingQueue,
                               gameOver))
             /\ launches' = launches + 1
             /\ launchTeam' = gameState.currentTeam
             /\ lastEvent' = "launch"
  /\ UNCHANGED << gameMode, showGameModeSelection, gameOver, winner,
                  playerTeam, callbackTeam, showMatchmakingQueue, moveTimer,
                  inFlight, peerSynced, aiVars >>

\* a frame that calls updateGameState only after a goal
GoalOnlySent(goalScored, turnChanged) == goalScored

\* the frames of an online match that call updateGameState(roomId,
\* updatedState): the goalScored branch and the shouldChangeTurn branch
SnapshotSent(goalScored, turnChanged) == goalScored \/ turnChanged

\* what a frame of an online match does with the updater's result r: the
\* new gameState, setGameOver / setWinner on a deciding goal, and
\* updateGameState(roomId, updatedState) after a goal or a settle
ApplyOnlineFrame(r) ==
  LET over == r.goalScored /\ MatchDecided(r.state.score)
      sent == SnapshotSent(r.goalScored, r.turnChanged)
  IN /\ gameState' = r.state
     /\ gameOver' = (gameOver \/ over)
     /\ winner' = IF over
                  THEN (IF r.state.score.team1 >= WIN_SCORE THEN 1 ELSE 2)
                  ELSE winner
     /\ animationFrame' =
          OnlinePhysicsEffect(r.state.isMoving # gameState.isMoving,
            r.state.isMoving, TRUE,
            BoardShown(showGameModeSelection \/ showMatchmakingQueue,
                       gameOver'))
     /\ inFlight' = IF sent /\ peerSynced /\ Len(inFlight) < MaxInFlight
                    THEN Append(inFlight, r.state) ELSE inFlight
     /\ peerSynced' = (peerSynced
                       /\ (sent => Len(inFlight) < MaxInFlight))
     /\ isMyTurn' = IF ~r.goalScored /\ r.turnChanged
                    THEN r.state.currentTeam = playerTeam ELSE isMyTurn
     /\ lastEvent' = IF r.goalScored THEN "goal"
                     ELSE IF r.turnChanged THEN "settle" ELSE "tick"
     /\ lastTick' = r.found
     /\ UNCHANGED requestVars
     /\ sentState' = IF SnapshotSent(r.goalScored, r.turnChanged)
                     THEN << r.state >> ELSE << >>
     /\ keptBack' = IF r.state.isMoving THEN keptBack ELSE << >>
     /\ replaced' = << >>
     /\ UNCHANGED serverVars

\* one animation frame of the multiplayer client in online mode:
\* updatePhysics, setGameOver / setWinner on a goal, and updateGameState
\* on a goal and on a turn change.  The peer runs the same frames on the
\* same state, so while it is in step its own snapshot of the same goal or
\* turn change is then on its way to this client; beyond MaxInFlight
\* snapshots the peer is no longer followed.  The zero-delay timer of
\* opponentMove fires before the next frame.
onlineTick ==
  /\ gameMode = ONLINE
  /\ animationFrame
  /\ ~moveTimer
  /\ ApplyOnlineFrame(updatePhysics(gameState,
       ContainerWidth(showGameModeSelection \/ showMatchmakingQueue, gameOver),
       ContainerHeight(showGameModeSelection \/ showMatchmakingQueue,
                       gameOver)))
  /\ UNCHANGED << gameMode, showGameModeSelection, isDragging, dragVector,
                  launches, launchTeam, playerTeam, callbackTeam,
                  showMatchmakingQueue, moveTimer, aiVars >>

\* opponentMove({move}): the peer, in step with this client and to act,
\* launched the disc playerId with the drag vector v; the updater puts the
\* disc at move.playerPos with velocity move.direction * move.power and,
\* when no frame is pending, starts the timer that forces isMoving.
opponentMove(playerId, v) ==
  /\ gameMode = ONLINE
  /\ playerTeam # 0
  /\ ~showGameModeSelection
  /\ ~showMatchmakingQueue
  /\ peerSynced
  /\ inFlight = << >>
  /\ ~moveTimer
  /\ ~isDragging
  /\ ~gameState.isMoving
  /\ ~MatchDecided(gameState.score)
  /\ gameState.currentTeam = 3 - playerTeam
  /\ FindIndex(gameState.balls, playerId) # 0
  /\ gameState.balls[FindIndex(gameState.balls, playerId)].team
       = gameState.currentTeam
  /\ v \in OnlineDragVectors(playerId)
  /\ launches < MaxOnlineLaunches
  /\ gameState' = opponentMoveUpdater(gameState,
                                      SentMove(gameState.balls, playerId, v))
  /\ moveTimer' = ~animationFrame
  /\ animationFrame' =
       OnlinePhysicsEffect(TRUE, TRUE, animationFrame,
                           BoardShown(FALSE, gameOver))
  /\ launches' = launches + 1
  /\ launchTeam' = gameState.currentTeam
  /\ lastEvent' = "remoteMove"
  /\ lastTick' = NoTick
  /\ UNCHANGED requestVars
  /\ sentState' = << >>
  /\ replaced' = << >>
  /\ UNCHANGED serverVars
  /\ UNCHANGED keptBack
  /\ isMyTurn' = FALSE
  /\ UNCHANGED << gameMode, showGameModeSelection, isDragging, dragVector,
                  gameOver, winner, playerTeam, callbackTeam,
                  showMatchmakingQueue, inFlight, peerSynced, aiVars >>

\* the timer of opponentMove: setGameState(c => ({...c, isMoving: true}))
moveTimerFires ==
  /\ moveTimer
  /\ moveTimer' = FALSE
  /\ gameState' = [gameState EXCEPT !.isMoving = TRUE]
  /\ animationFrame' =
       OnlinePhysicsEffect(~gameState.isMoving, TRUE, animationFrame,
         BoardShown(showGameModeSelection \/ showMatchmakingQueue, gameOver))
  /\ lastEvent' = "moveTimer"
  /\ lastTick' = NoTick
  /\ UNCHANGED requestVars
  /\ sentState' = << >>
  /\ replaced' = << >>
  /\ UNCHANGED serverVars
  /\ UNCHANGED keptBack
  /\ UNCHANGED << gameMode, showGameModeSelection, isDragging, dragVector,
                  gameOver, winner, launches, launchTeam, playerTeam,
                  isMyTurn, callbackTeam, showMatchmakingQueue, inFlight,
                  peerSynced, aiVars >>

\* the updater of gameStateUpdated({gameState: newState})
\* variant of AcceptState that keeps the moving local state before it looks
\* at the score
AcceptMovingFirst(prevState, newState) ==
  IF prevState.isMoving /\ ~newState.isMoving THEN prevState
  ELSE newState

AcceptState(prevState, newState) ==
  IF prevState.score # newState.score THEN newState
  ELSE IF prevState.isMoving /\ ~newState.isMoving THEN prevState
  ELSE newState

\* the match as both clients simulate it
Shared(gs) == << gs.balls, gs.currentTeam, gs.isMoving, gs.score >>

\* gameStateUpdated({gameState}): the oldest snapshot on its way arrives
gameStateUpdated ==
  /\ gameMode = ONLINE
  /\ inFlight # << >>
  /\ gameState' = AcceptState(gameState, Head(inFlight))
  /\ inFlight' = Tail(inFlight)
  /\ peerSynced' = (peerSynced /\ Shared(gameState') = Shared(gameState))
  /\ animationFrame' =
       OnlinePhysicsEffect(gameState'.isMoving # gameState.isMoving,
         gameState'.isMoving, animationFrame,
         BoardShown(showGameModeSelection \/ showMatchmakingQueue, gameOver))
  /\ lastEvent' = "remoteState"
  /\ lastTick' = NoTick
  /\ UNCHANGED requestVars
  /\ sentState' = << >>
  /\ replaced' = << gameState >>
  /\ UNCHANGED serverVars
  /\ keptBack' = IF gameState' = Head(inFlight) THEN << >>
                 ELSE << Head(inFlight) >>
  /\ isMyTurn' = (isMyTurn \/ Head(inFlight).currentTeam = callbackTeam)
  /\ UNCHANGED << gameMode, showGameModeSelection, isDragging, dragVector,
                  gameOver, winner, launches, launchTeam, playerTeam,
                  callbackTeam, showMatchmakingQueue, moveTimer, aiVars >>

\* returnToModeSelection() of the multiplayer client in online mode: back
\* to the menu, the socket is disconnected
onlineReturnToModeSelection ==
  /\ gameMode = ONLINE
  /\ ~showGameModeSelection
  /\ ~showMatchmakingQueue
  /\ showGameModeSelection' = TRUE
  /\ animationFrame' = FALSE
  /\ inFlight' = << >>
  /\ peerSynced' = FALSE
  /\ lastEvent' = "menu"
  /\ lastTick' = NoTick
  /\ UNCHANGED requestVars
  /\ sentState' = << >>
  /\ replaced' = << >>
  /\ UNCHANGED serverVars
  /\ keptBack' = << >>
  /\ UNCHANGED << gameState, gameMode, isDragging, dragVector, gameOver,
                  winner, launches, launchTeam, playerTeam, isMyTurn,
                  callbackTeam, showMatchmakingQueue, moveTimer, aiVars >>

\* every drag vector of the pointer
AllDragVectors ==
  UNION { LocalDragVectors(id) \cup OnlineDragVectors(id) : id \in PlayerIds }

Next ==
  \/ \E mode \in GAME_MODES : startGame(mode)
  \/ \E id \in PlayerIds : selectPlayer(id)
  \/ \E id \in PlayerIds : handleInteractionStart(id)
  \/ \E v \in AllDragVectors : handleInteractionMove(v)
  \/ handleInteractionEnd
  \/ Tick
  \/ handleRestart
  \/ returnToModeSelection
  \/ AiEffectRerun

Spec == Init /\ [][Next]_vars

\* The multiplayer client in an online match.
NextOnline ==
  \/ startOnlineGame
  \/ \E team \in {1, 2} : matchFound(team)
  \/ \E id \in PlayerIds : selectPlayer(id)
  \/ \E id \in PlayerIds : handleInteractionStart(id)
  \/ \E v \in AllDragVectors : handleInteractionMove(v)
  \/ onlineInteractionEnd
  \/ onlineTick
  \/ \E id \in PlayerIds : \E v \in AllDragVectors : opponentMove(id, v)
  \/ moveTimerFires
  \/ gameStateUpdated
  \/ handleRestart
  \/ onlineReturnToModeSelection

SpecOnline == Init /\ [][NextOnline]_vars

\* ------------------------------------------------- the launch handlers
\* The three launch handlers as functions of the state they find: a drag
\* release, executeAIMove, and handleAIMove when the planner returned null.
\* A request is pending while lastEvent = "request".
\* disc ids a request can name: the discs, the Ball, a disc that is not there
RequestIds == PlayerIds \cup {"ball", "team2-player4"}

\* shots a request can carry
RequestShots == { <<-100, 0>>, <<30, 40>> }

\* drag vectors a release can find: the shots, a drag shorter than 5 px and
\* one longer than MAX_PULL_DISTANCE
ReleaseDrags == RequestShots \cup { <<3, 0>>, <<180, 240>> }

\* opponentMove events a request can carry: a disc, the Ball or a disc that
\* is not there; where the sender had it; a unit vector; a power
RemoteMoves ==
  [playerId : {"team1-player1", "ball", "team2-player4"},
   playerPos : { [x |-> 100 * S, y |-> 480 * S], [x |-> 50 * S, y |-> 60 * S] },
   direction : { [x |-> 0 - S, y |-> 0],
                 [x |-> (6 * S) \div 10, y |-> (8 * S) \div 10] },
   power : { 10 * S, 30 * S }]

\* RoundStates a request can find: either team to act, at rest or with the
\* Ball rolling, nothing selected or a disc of the acting team selected
\* (positions do not enter the launch handlers: the layout is the template)
LaunchStates ==
  { [initialGameState(VS_AI) EXCEPT
       !.currentTeam = c[1],
       !.isMoving = c[2],
       !.balls = IF c[2] THEN SetVelocity(initialBalls, "ball",
                                          [x |-> 2 * S, y |-> 0 - S])
                 ELSE initialBalls,
       !.selectedPlayerId = c[3]] :
      c \in { d \in {1, 2} \X BOOLEAN \X ({"none"} \cup PlayerIds) :
                \/ d[3] = "none"
                \/ initialBalls[FindIndex(initialBalls, d[3])].team = d[1] } }

InitLaunch ==
  /\ gameState \in LaunchStates
  /\ gameMode = VS_AI
  /\ showGameModeSelection = FALSE
  /\ isDragging \in BOOLEAN
  /\ dragVector \in IF isDragging THEN ReleaseDrags ELSE { <<0, 0>> }
  /\ isAiProcessing = (gameState.currentTeam = 2)
  /\ gameOver = FALSE
  /\ winner = 0
  /\ aiTimeout = FALSE
  /\ animationFrame = gameState.isMoving
  /\ effectPending = FALSE
  /\ launches = 0
  /\ launchTeam = 0
  /\ lastEvent = "request"
  /\ lastTick = NoTick
  /\ playerTeam = 0
  /\ isMyTurn = TRUE
  /\ callbackTeam = 1
  /\ showMatchmakingQueue = FALSE
  /\ moveTimer = FALSE
  /\ inFlight = << >>
  /\ peerSynced = FALSE
  /\ keptBack = << >>
  /\ sentState = << >>
  /\ replaced = << >>
  /\ aiMove \in {NoMove} \cup [player : RequestIds, shot : RequestShots]
  /\ move \in IF aiMove = NoMove THEN {NoRemoteMove} \cup RemoteMoves
               ELSE {NoRemoteMove}
  /\ plan = NoPlan
  /\ matchmakingQueue = << >>
  /\ gameRooms = [roomId \in RoomIds |-> NoRoom]
  /\ sockets = [socket \in Sockets |-> "new"]
  /\ emitted = {}
  /\ losingTeam = 0

\* a drag release finds the request
releaseRequest ==
  /\ lastEvent = "request"
  /\ move = NoRemoteMove
  /\ handleInteractionEnd

\* executeAIMove(aiMove, setGameState) is called with the request
executeAIMoveRequest ==
  /\ lastEvent = "request"
  /\ aiMove # NoMove
  /\ gameState' = executeAIMove(aiMove, gameState)
  /\ sentState' = << >>
  /\ replaced' = << >>
  /\ UNCHANGED serverVars
  /\ animationFrame' = PhysicsEffect(gameState.isMoving, gameState'.isMoving,
                                     animationFrame, FALSE, FALSE)
  /\ lastEvent' = "aiLaunch"
  /\ UNCHANGED << gameMode, showGameModeSelection, isDragging, dragVector,
                  gameOver, winner, launches, launchTeam, lastTick,
                  onlineVars, peerSynced, aiVars, requestVars, keptBack >>

\* handleAIMove() runs and calculateAIMove returns null: the guard on the
\* state it sees, then the fallback launch of the first disc of team 2
handleAIMoveFallback ==
  /\ lastEvent = "request"
  /\ aiMove = NoMove
  /\ move = NoRemoteMove
  /\ isAiProcessing' = FALSE
  /\ sentState' = << >>
  /\ replaced' = << >>
  /\ UNCHANGED serverVars
  /\ LET aiPlayer == FirstAiPlayer(gameState.balls)
         id == gameState.balls[aiPlayer].id
     IN IF gameState.currentTeam # 2 \/ gameState.isMoving \/ aiPlayer = 0
        THEN UNCHANGED gameState
        ELSE gameState' =
               LaunchUpdater(
                 [gameState EXCEPT !.selectedPlayerId =
                    IF MaySelect(gameState, id) THEN id ELSE @],
                 id, FallbackVelocity)
  /\ animationFrame' = PhysicsEffect(gameState.isMoving, gameState'.isMoving,
                                     animationFrame, FALSE, FALSE)
  /\ lastEvent' = "aiFallback"
  /\ UNCHANGED << gameMode, showGameModeSelection, isDragging, dragVector,
                  gameOver, winner, launches, launchTeam, lastTick,
                  onlineVars, peerSynced, aiTimeout, effectPending,
                  requestVars, keptBack >>

\* the opponentMove callback is called with the request: the updater, the
\* timer it starts when no frame is pending, and the physics effect
opponentMoveRequest ==
  /\ lastEvent = "request"
  /\ move # NoRemoteMove
  /\ gameState' = opponentMoveUpdater(gameState, move)
  /\ moveTimer' = (gameState' # gameState /\ ~animationFrame)
  /\ animationFrame' = PhysicsEffect(gameState.isMoving, gameState'.isMoving,
                                     animationFrame, FALSE, FALSE)
  /\ sentState' = << >>
  /\ replaced' = << >>
  /\ UNCHANGED serverVars
  /\ lastEvent' = "remoteMove"
  /\ isMyTurn' = FALSE
  /\ UNCHANGED << gameMode, showGameModeSelection, isDragging, dragVector,
                  gameOver, winner, launches, launchTeam, lastTick,
                  playerTeam, callbackTeam, showMatchmakingQueue, inFlight,
                  peerSynced, aiVars, requestVars, keptBack >>

NextLaunch ==
  \/ releaseRequest
  \/ executeAIMoveRequest
  \/ handleAIMoveFallback
  \/ opponentMoveRequest

SpecLaunch == InitLaunch /\ [][NextLaunch]_vars

\* ------------------------------------------------- collision step requests
\* where the second disc of a request lies, relative to the first: 30 px
\* along x, 30 px along (0.6, 0.8), on the same point, 0.02 px away along
\* both axes (squared distance 0.0008), and 50 px away (no contact)
PairOffsets ==
  { [x |-> 30 * S, y |-> 0], [x |-> 18 * S, y |-> 24 * S],
    [x |-> 0, y |-> 0], [x |-> (2 * S) \div 100, y |-> (2 * S) \div 100],
    [x |-> 50 * S, y |-> 0] }

\* velocities the two discs of a request can have
PairVelocities ==
  { [x |-> 0, y |-> 0], [x |-> 10 * S, y |-> 0], [x |-> 0 - 10 * S, y |-> 0],
    [x |-> 6 * S, y |-> 8 * S], [x |-> 0 - 6 * S, y |-> 0 - 8 * S],
    [x |-> 0, y |-> 5 * S] }

\* the layout with team1-player1 at (100, 300), team1-player2 at the offset
\* from it, and the two velocities
PairBalls(offset, vel1, vel2) ==
  [i \in DOMAIN initialBalls |->
     IF i = 2 THEN [initialBalls[i] EXCEPT
                      !.pos = [x |-> 100 * S, y |-> 300 * S], !.vel = vel1]
     ELSE IF i = 3 THEN [initialBalls[i] EXCEPT
                      !.pos = [x |-> 100 * S + offset.x,
                               y |-> 300 * S + offset.y], !.vel = vel2]
     ELSE initialBalls[i]]

InitCollide ==
  /\ gameState \in
       { [initialGameState(VS_PLAYER) EXCEPT
            !.balls = PairBalls(c[1], c[2], c[3]),
            !.isMoving = TRUE] :
          c \in PairOffsets \X PairVelocities \X PairVelocities }
  /\ gameMode = VS_PLAYER
  /\ showGameModeSelection = FALSE
  /\ isDragging = FALSE
  /\ dragVector = <<0, 0>>
  /\ isAiProcessing = FALSE
  /\ gameOver = FALSE
  /\ winner = 0
  /\ aiTimeout = FALSE
  /\ animationFrame = TRUE
  /\ effectPending = FALSE
  /\ launches = 0
  /\ launchTeam = 0
  /\ lastEvent = "request"
  /\ lastTick = NoTick
  /\ playerTeam = 0
  /\ isMyTurn = TRUE
  /\ callbackTeam = 1
  /\ showMatchmakingQueue = FALSE
  /\ moveTimer = FALSE
  /\ inFlight = << >>
  /\ peerSynced = FALSE
  /\ keptBack = << >>
  /\ sentState = << >>
  /\ replaced = << >>
  /\ aiMove = NoMove
  /\ move = NoRemoteMove
  /\ plan = NoPlan
  /\ matchmakingQueue = << >>
  /\ gameRooms = [roomId \in RoomIds |-> NoRoom]
  /\ sockets = [socket \in Sockets |-> "new"]
  /\ emitted = {}
  /\ losingTeam = 0

\* the "Ball-Ball Collision Detection & Response" loops of one frame run on
\* the request
collideRequest ==
  /\ lastEvent = "request"
  /\ gameState' = [gameState EXCEPT !.balls = Collide(gameState.balls)]
  /\ lastEvent' = "collide"
  /\ sentState' = << >>
  /\ replaced' = << >>
  /\ UNCHANGED serverVars
  /\ UNCHANGED << gameMode, showGameModeSelection, isDragging, dragVector,
                  gameOver, winner, animationFrame, launches, launchTeam,
                  lastTick, onlineVars, peerSynced, aiVars, requestVars,
                  keptBack >>

NextCollide == collideRequest

SpecCollide == InitCollide /\ [][NextCollide]_vars

\* ---------------------------------------------- frames towards settled states
\* a layout with one disc put at (x, y) px with velocity (vx, vy) in 1/S px
Placed(balls, id, x, y, vx, vy) ==
  [i \in DOMAIN balls |->
     IF balls[i].id = id
     THEN [balls[i] EXCEPT !.pos = [x |-> x * S, y |-> y * S],
                           !.vel = [x |-> vx, y |-> vy]]
     ELSE balls[i]]

\* discs about to meet, none overlapping yet: a disc resting on the left
\* wall and one running into it, head-on and from above at a slant; a disc resting in the bottom-left corner
\* and one running into it; two discs 50 px apart and a third running into
\* the gap between them; the Ball resting 60 px below the top edge in line
\* with the left goal post (x = goalX - halfGoalWidth) and a disc of team 1
\* running into it from straight below
SettleLayouts ==
  { Placed(Placed(initialBalls, "team1-player1", 20, 300, 0, 0),
           "team1-player2", 70, 300, 0 - v, 0) :
      v \in { 30 * S, 10 * S, S, S \div 5 } }
  \cup
  { Placed(Placed(initialBalls, "team1-player1", 20, 300, 0, 0),
           "team1-player2", 80, 280, 0 - v, v \div 2) :
      v \in { 20 * S } }
  \cup
  { Placed(Placed(initialBalls, "team1-player1", 20, 580, 0, 0),
           "team1-player2", 60, 540, 0 - v, v) :
      v \in { 20 * S, 7 * S, (7 * S) \div 10 } }
  \cup
  { Placed(Placed(Placed(initialBalls, "team1-player1", 100, 300, 0, 0),
                  "team1-player3", 150, 300, 0, 0),
           "team1-player2", 125, 250, 0, v) :
      v \in { 25 * S, 10 * S, S } }
  \cup
  { Placed(Placed(initialBalls, "ball", (fieldWidth - GOAL_HEIGHT) \div 2,
                  60, 0, 0),
           "team1-player2", (fieldWidth - GOAL_HEIGHT) \div 2, 110, 0,
           0 - v) :
      v \in { 20 * S } }

InitSettle ==
  /\ gameState \in
       { [initialGameState(VS_PLAYER) EXCEPT !.balls = b, !.isMoving = TRUE] :
           b \in SettleLayouts }
  /\ gameMode = VS_PLAYER
  /\ showGameModeSelection = FALSE
  /\ isDragging = FALSE
  /\ dragVector = <<0, 0>>
  /\ isAiProcessing = FALSE
  /\ gameOver = FALSE
  /\ winner = 0
  /\ aiTimeout = FALSE
  /\ animationFrame = TRUE
  /\ effectPending = FALSE
  /\ launches = 1
  /\ launchTeam = 1
  /\ lastEvent = "launch"
  /\ lastTick = NoTick
  /\ playerTeam = 0
  /\ isMyTurn = TRUE
  /\ callbackTeam = 1
  /\ showMatchmakingQueue = FALSE
  /\ moveTimer = FALSE
  /\ inFlight = << >>
  /\ peerSynced = FALSE
  /\ keptBack = << >>
  /\ sentState = << >>
  /\ replaced = << >>
  /\ aiMove = NoMove
  /\ move = NoRemoteMove
  /\ plan = NoPlan
  /\ matchmakingQueue = << >>
  /\ gameRooms = [roomId \in RoomIds |-> NoRoom]
  /\ sockets = [socket \in Sockets |-> "new"]
  /\ emitted = {}
  /\ losingTeam = 0

NextSettle == Tick

SpecSettle == InitSettle /\ [][NextSettle]_vars

\* a frame is requested and nothing keeps the browser from running it: the
\* guard of Tick; a frame of a state with isMoving always changes the state
TickEnabled == gameMode # ONLINE /\ ~effectPending /\ animationFrame

\* the browser runs every animation frame that is requested: weak fairness
\* of Tick, with the guard of Tick for ENABLED <<Tick>>_vars
FramesRun == []<>(~TickEnabled) \/ []<><<Tick>>_vars

\* the frames that follow a launch, with no other event, under FramesRun
SpecResolve == InitSettle /\ [][NextSettle]_vars /\ FramesRun

\* ================================================== the planner (GameAI.js)
\* Lengths are in 1/S px, angles in 1/S rad, scores in 1/S.
\* Math.PI
PI == (31416 * S) \div 10000

\* a % b of JavaScript: the remainder has the sign of a
JsRem(a, b) == a - b * TDiv(a, b)

\* the step of the lengths under a square root: 1/20 px
LengthStep == S \div 20

\* Math.sqrt(Math.pow(a.x - b.x, 2) + Math.pow(a.y - b.y, 2))
Distance(a, b) ==
  Sqrt(TDiv(a.x - b.x, LengthStep) * TDiv(a.x - b.x, LengthStep)
       + TDiv(a.y - b.y, LengthStep) * TDiv(a.y - b.y, LengthStep))
    * LengthStep

\* (to - from) / |to - from|, which is also (cos, sin) of the bearing
\* Math.atan2(to.y - from.y, to.x - from.x); len is Distance(from, to)
UnitVector(from, to, len) ==
  IF len = 0
  THEN [x |-> S, y |-> 0]
  ELSE [x |-> TDiv((to.x - from.x) * S, len),
        y |-> TDiv((to.y - from.y) * S, len)]

\* Math.atan(z / S) for 0 <= z <= S, within 0.0015 rad
AtanUnit(z) ==
  (PI * z) \div (4 * S)
    + (z * (S - z) * ((2447 * S) \div 10000 + (663 * z) \div 10000))
        \div (S * S)

\* Math.atan2(y, x)
Atan2(y, x) ==
  IF x = 0 /\ y = 0
  THEN 0
  ELSE LET small == Min(Abs(x), Abs(y))
           large == Max(Abs(x), Abs(y))
           octant == AtanUnit(TDiv(small * S, large))
           quadrant == IF Abs(y) > Abs(x) THEN PI \div 2 - octant
                       ELSE octant
           half == IF x < 0 THEN PI - quadrant ELSE quadrant
       IN  IF y < 0 THEN 0 - half ELSE half

\* normalizeAngle(angle)
normalizeAngle(angle) == JsRem(angle + PI, 2 * PI) - PI

\* the sign of Math.sin(Math.atan2(dy, dx)): Math.sin(Math.PI) is a
\* positive number
SinSign(dy, dx) ==
  IF dy > 0 THEN 1
  ELSE IF dy < 0 THEN 0 - 1
  ELSE IF dx < 0 THEN 1 ELSE 0

\* the sign of Math.cos(Math.atan2(dy, dx)): Math.cos(Math.PI / 2) is a
\* positive number
CosSign(dy, dx) == IF dx < 0 THEN 0 - 1 ELSE 1

\* fieldWidth and fieldHeight of calculateAIMove:
\* containerRef.current?.offsetWidth || 600, offsetHeight || 400
PlannerWidth(measured) == IF measured = 0 THEN 600 ELSE measured
PlannerHeight(measured) == IF measured = 0 THEN 400 ELSE measured

\* goalY
GoalY(height) == (height * S) \div 2

\* targetPoints at AI_DIFFICULTY.HARD: nine points on the left edge across
\* the goal height, then the two extra points 10 px inside the board
TargetPoints(height) ==
  [i \in 1..11 |->
     IF i <= 9
     THEN [x |-> 0,
           y |-> GoalY(height) - (GOAL_HEIGHT * S) \div 2
                   + ((i - 1) * GOAL_HEIGHT * S) \div 8]
     ELSE [x |-> 10 * S,
           y |-> GoalY(height) - (GOAL_HEIGHT * S) \div 3
                   + ((2 * i - 19) * GOAL_HEIGHT * S) \div 3]]

\* wallPoints: five points on the top edge, then five on the bottom edge
WallPoints(width, height) ==
  [i \in 1..10 |->
     IF i <= 5
     THEN [x |-> (width * S * i) \div 6, y |-> 0]
     ELSE [x |-> (width * S * (i - 5)) \div 6, y |-> height * S]]

\* balls.filter(b => b.isPlayer && b.team === team), as indices in order
TeamPlayers(balls, team) ==
  SelectSeq([i \in DOMAIN balls |-> i],
            LAMBDA i : balls[i].isPlayer /\ balls[i].team = team)

\* obstacles: the discs of team 1, each with radius PLAYER_SIZE / 2
Obstacles(balls) ==
  [k \in DOMAIN TeamPlayers(balls, 1) |->
     [pos |-> balls[TeamPlayers(balls, 1)[k]].pos,
      radius |-> (PLAYER_SIZE * S) \div 2]]

\* projection of isPathClear: the obstacle along the path
Projection(start, obstacle, unit) ==
  ((obstacle.pos.x - start.x) * unit.x + (obstacle.pos.y - start.y) * unit.y)
    \div S

\* closestPoint of isPathClear
ClosestPoint(start, unit, projection) ==
  [x |-> start.x + (unit.x * projection) \div S,
   y |-> start.y + (unit.y * projection) \div S]

\* one turn of the loop of isPathClear: the obstacle is passed over
\* (continue) or found farther than the clearance
ObstaclePassed(start, obstacle, unit, pathLength, pathWidth) ==
  \/ Projection(start, obstacle, unit) < 0
  \/ Projection(start, obstacle, unit) > pathLength
  \/ Distance(obstacle.pos,
              ClosestPoint(start, unit, Projection(start, obstacle, unit)))
       >= (pathWidth * S) \div 2 + obstacle.radius

\* isPathClear(startPos, endPos, obstacles, pathWidth)
isPathClear(startPos, endPos, obstacles, pathWidth) ==
  \A k \in DOMAIN obstacles :
    ObstaclePassed(startPos, obstacles[k],
                   UnitVector(startPos, endPos, Distance(startPos, endPos)),
                   Distance(startPos, endPos), pathWidth)

\* isBankShotGeometricallyValid(ballPos, wallPoint, targetPos, fieldWidth,
\* fieldHeight)
isBankShotGeometricallyValid(ballPos, wallPoint, targetPos, width, height) ==
  LET onTopWall == Abs(wallPoint.y) < S
      onBottomWall == Abs(wallPoint.y - height * S) < S
      onLeftWall == Abs(wallPoint.x) < S
      onRightWall == Abs(wallPoint.x - width * S) < S
  IN  IF onTopWall \/ onBottomWall
      THEN SinSign(wallPoint.y - ballPos.y, wallPoint.x - ballPos.x)
             * SinSign(targetPos.y - wallPoint.y, targetPos.x - wallPoint.x)
             < 0
      ELSE IF onLeftWall \/ onRightWall
      THEN CosSign(wallPoint.y - ballPos.y, wallPoint.x - ballPos.x)
             * CosSign(targetPos.y - wallPoint.y, targetPos.x - wallPoint.x)
             < 0
      ELSE FALSE

\* impactPoint: BALL_SIZE / 2.5 behind the ball, against the unit vector
\* of the direction the ball is to leave in
ImpactPoint(ballPos, unit) ==
  [x |-> ballPos.x - TDiv(unit.x * ((BALL_SIZE * S * 2) \div 5), S),
   y |-> ballPos.y - TDiv(unit.y * ((BALL_SIZE * S * 2) \div 5), S)]

\* hitAngle: the bearing from the disc to the impact point
HitAngle(playerPos, impactPoint) ==
  Atan2(impactPoint.y - playerPos.y, impactPoint.x - playerPos.x)

\* 1 - angleDifference / Math.PI
AngleScore(hitAngle, playerPos, ballPos) ==
  S - (Abs(normalizeAngle(hitAngle - Atan2(ballPos.y - playerPos.y,
                                           ballPos.x - playerPos.x))) * S)
        \div PI

\* distanceFactor
DistanceFactor(distPlayerToBall) ==
  S - TDiv(distPlayerToBall * 2, MAX_PULL_DISTANCE * 3)

\* Math.min(1, (length / fieldWidth) * 0.7)
DifficultyScore(length, width) == Min(S, (length * 7) \div (width * 10))

\* shotScore of a direct shot
DirectScore(playerPos, ballPos, target, width) ==
  (DistanceFactor(Distance(playerPos, ballPos)) * 4
     + AngleScore(HitAngle(playerPos,
                           ImpactPoint(ballPos,
                                       UnitVector(ballPos, target,
                                                  Distance(ballPos, target)))),
                  playerPos, ballPos) * 5
     + DifficultyScore(Distance(ballPos, target), width) * 3) \div 10

\* shotScore of a bank shot, at AI_DIFFICULTY.HARD
BankScore(playerPos, ballPos, wallPoint, target, width) ==
  (((DistanceFactor(Distance(playerPos, ballPos)) * 3
      + ((AngleScore(HitAngle(playerPos,
                              ImpactPoint(ballPos,
                                          UnitVector(ballPos, wallPoint,
                                                     Distance(ballPos,
                                                              wallPoint)))),
                     playerPos, ballPos) * 12) \div 10) * 4
      + DifficultyScore(Distance(ballPos, wallPoint)
                          + Distance(wallPoint, target), width) * 5)
     \div 10) * 9) \div 10

\* bestPower of a direct shot, at AI_DIFFICULTY.HARD
DirectPower(distBallToTarget, width) ==
  (((Min(MAX_PULL_DISTANCE * S,
         (((Min(distBallToTarget \div 2, MAX_PULL_DISTANCE * S) * 13) \div 10)
            * (S + (distBallToTarget * 2) \div (width * 10))) \div S)
      * AI_POWER_SCALING_FACTOR_PCT) \div 100) * 12) \div 10

\* bestPower of a bank shot, at AI_DIFFICULTY.HARD
BankPower(totalDistance, width) ==
  (((Min(MAX_PULL_DISTANCE * S,
         (Min(MAX_PULL_DISTANCE * S,
              (((totalDistance * 55) \div 1000)
                 * (S + (totalDistance * 4) \div (width * 15)))
                \div (S \div 10))
            * 10000) \div (WALL_BOUNCE_FACTOR_PCT * 95))
      * AI_POWER_SCALING_FACTOR_PCT) \div 100) * 125) \div 100

\* the shots the loops of calculateAIMove try, in the order they try them:
\* for each disc of team 2, the eleven direct shots, then for each wall
\* point the eleven bank shots; wall 0 is a direct shot
ShotKeys(balls) ==
  { [p |-> p, wall |-> w, target |-> t] :
      p \in DOMAIN TeamPlayers(balls, 2), w \in 0..10, t \in 1..11 }

ShotOrder(key) == (key.p * 11 + key.wall) * 12 + key.target

\* the shot passes the conditions of its loop body: the disc is within
\* MAX_PULL_DISTANCE * 1.2 of the ball, and the path is clear (for a bank
\* shot: the bounce is valid and both paths are clear)
ShotValid(balls, key, width, height) ==
  LET player == balls[TeamPlayers(balls, 2)[key.p]]
      ball == balls[FindIndex(balls, "ball")]
      target == TargetPoints(height)[key.target]
  IN  /\ Distance(player.pos, ball.pos) <= (MAX_PULL_DISTANCE * S * 12) \div 10
      /\ IF key.wall = 0
         THEN isPathClear(ball.pos, target, Obstacles(balls), BALL_SIZE)
         ELSE /\ isBankShotGeometricallyValid(
                   ball.pos, WallPoints(width, height)[key.wall], target,
                   width, height)
              /\ isPathClear(ball.pos, WallPoints(width, height)[key.wall],
                             Obstacles(balls), BALL_SIZE)
              /\ isPathClear(WallPoints(width, height)[key.wall], target,
                             Obstacles(balls), BALL_SIZE)

\* shotScore of the shot
ShotScore(balls, key, width, height) ==
  IF key.wall = 0
  THEN DirectScore(balls[TeamPlayers(balls, 2)[key.p]].pos,
                   balls[FindIndex(balls, "ball")].pos,
                   TargetPoints(height)[key.target], width)
  ELSE BankScore(balls[TeamPlayers(balls, 2)[key.p]].pos,
                 balls[FindIndex(balls, "ball")].pos,
                 WallPoints(width, height)[key.wall],
                 TargetPoints(height)[key.target], width)

\* the valid shots with their scores
ScoredShots(balls, width, height) ==
  { [key |-> key, score |-> ShotScore(balls, key, width, height)] :
      key \in { k \in ShotKeys(balls) : ShotValid(balls, k, width, height) } }

\* the shot the loops end with: shotScore > bestShotScore keeps the first
\* of the shots of the highest score
BestShot(shots) ==
  CHOOSE best \in shots :
    \A other \in shots :
      \/ best.score > other.score
      \/ /\ best.score = other.score
         /\ ShotOrder(best.key) <= ShotOrder(other.key)

\* the plan returned for the best shot
ShotPlan(balls, key, width, height) ==
  LET player == balls[TeamPlayers(balls, 2)[key.p]]
      ball == balls[FindIndex(balls, "ball")]
      target == TargetPoints(height)[key.target]
      wallPoint == WallPoints(width, height)[IF key.wall = 0 THEN 1
                                             ELSE key.wall]
      aim == IF key.wall = 0 THEN target ELSE wallPoint
  IN  [player |-> player.id,
       angle |-> HitAngle(player.pos,
                          ImpactPoint(ball.pos,
                                      UnitVector(ball.pos, aim,
                                                 Distance(ball.pos, aim)))),
       power |-> IF key.wall = 0
                 THEN DirectPower(Distance(ball.pos, target), width)
                 ELSE BankPower(Distance(player.pos, ball.pos)
                                  + Distance(ball.pos, wallPoint)
                                  + Distance(wallPoint, target), width),
       bank |-> key.wall # 0]

\* the fallback taking the first disc of team 2, near or far
ClosestPlayerFirst(balls) ==
  IF TeamPlayers(balls, 2) = << >> THEN 0 ELSE TeamPlayers(balls, 2)[1]

\* closestPlayer of the fallback: dist < minDistance keeps the first of
\* the nearest discs of team 2 (0 when the team has none)
ClosestPlayer(balls) ==
  IF TeamPlayers(balls, 2) = << >>
  THEN 0
  ELSE LET ball == balls[FindIndex(balls, "ball")]
           ai == TeamPlayers(balls, 2)
       IN  ai[CHOOSE k \in DOMAIN ai :
                \A m \in DOMAIN ai :
                  \/ Distance(balls[ai[k]].pos, ball.pos)
                       < Distance(balls[ai[m]].pos, ball.pos)
                  \/ /\ Distance(balls[ai[k]].pos, ball.pos)
                          = Distance(balls[ai[m]].pos, ball.pos)
                     /\ k <= m]

\* (cos, sin) of the bearing of unit turned by impactOffset = Math.PI / 6
TurnedUnit(unit) ==
  [x |-> TDiv(unit.x * 866 - unit.y * 500, 1000),
   y |-> TDiv(unit.y * 866 + unit.x * 500, 1000)]

\* the plan of the fallback at AI_DIFFICULTY.HARD: the nearest disc, sent
\* to the point PLAYER_SIZE behind the ball on the bearing to the goal
\* centre turned by 30 degrees
FallbackPlan(balls, height) ==
  LET ball == balls[FindIndex(balls, "ball")]
      closestPlayer == balls[ClosestPlayer(balls)]
      goalCenter == [x |-> 0, y |-> GoalY(height)]
      turned == TurnedUnit(UnitVector(ball.pos, goalCenter,
                                      Distance(ball.pos, goalCenter)))
  IN  [player |-> closestPlayer.id,
       angle |-> Atan2(ball.pos.y - turned.y * PLAYER_SIZE
                         - closestPlayer.pos.y,
                       ball.pos.x - turned.x * PLAYER_SIZE
                         - closestPlayer.pos.x),
       power |-> (((MAX_PULL_DISTANCE * S * 85) \div 100)
                    * AI_POWER_SCALING_FACTOR_PCT) \div 100,
       bank |-> FALSE]

\* calculateAIMove(gameState, AI_DIFFICULTY.HARD, containerRef,
\* selectPlayer): the value returned, with the board as measured
calculateAIMove(gs, measuredWidth, measuredHeight) ==
  IF gs.isMoving \/ gs.currentTeam # 2
  THEN NoPlan
  ELSE IF ScoredShots(gs.balls, PlannerWidth(measuredWidth),
                      PlannerHeight(measuredHeight)) # {}
  THEN ShotPlan(gs.balls,
                BestShot(ScoredShots(gs.balls, PlannerWidth(measuredWidth),
                                     PlannerHeight(measuredHeight))).key,
                PlannerWidth(measuredWidth), PlannerHeight(measuredHeight))
  ELSE IF ClosestPlayer(gs.balls) # 0
  THEN FallbackPlan(gs.balls, PlannerHeight(measuredHeight))
  ELSE NoPlan

\* ------------------------------------------- the planner on drawn boards
\* where the ball lies when the planner is asked, in px
PlannerBallSpots == { <<200, 300>>, <<200, 500>>, <<60, 400>> }

\* where team2-player2 lies: right of the ball at the centre, below it,
\* farther right, and its place in the layout of a new round
PlannerAiSpots == { <<260, 300>>, <<200, 360>>, <<300, 300>>, <<200, 120>> }

\* where team1-player2 lies: its place in the layout of a new round, on the
\* top wall beside a wall point, between the centre and the left edge, on
\* the left wall above the goal height, and on the bottom wall
PlannerOpponentSpots ==
  { <<200, 480>>, <<226, 20>>, <<100, 300>>, <<20, 230>>, <<200, 570>> }

\* the other two discs of each team: where a new round puts them
\* ("round"), in the four corners ("corners"), or team 2 where a new round
\* puts it and the two of team 1 just above and just below the ball
\* ("guard")
PlannerOthers == { "round", "corners", "guard" }

PlannerBoard(ballSpot, aiSpot, opponentSpot, others) ==
  LET placed == Placed(Placed(Placed(initialBalls, "ball", ballSpot[1],
                                     ballSpot[2], 0, 0),
                              "team2-player2", aiSpot[1], aiSpot[2], 0, 0),
                       "team1-player2", opponentSpot[1], opponentSpot[2],
                       0, 0)
  IN  IF others = "corners"
      THEN Placed(Placed(Placed(Placed(placed, "team2-player1", 30, 30, 0, 0),
                                "team2-player3", 370, 30, 0, 0),
                         "team1-player1", 30, 570, 0, 0),
                  "team1-player3", 370, 570, 0, 0)
      ELSE IF others = "guard"
      THEN Placed(Placed(placed, "team1-player1", ballSpot[1],
                         ballSpot[2] - PLAYER_SIZE, 0, 0),
                  "team1-player3", ballSpot[1], ballSpot[2] + PLAYER_SIZE,
                  0, 0)
      ELSE placed

\* no two discs overlap
Apart(balls) ==
  \A i, j \in DOMAIN balls :
    i < j => Distance(balls[i].pos, balls[j].pos)
               >= (balls[i].size + balls[j].size) \div 2

PlannerLayouts ==
  { b \in { PlannerBoard(ballSpot, aiSpot, opponentSpot, others) :
              ballSpot \in PlannerBallSpots, aiSpot \in PlannerAiSpots,
              opponentSpot \in PlannerOpponentSpots,
              others \in PlannerOthers } :
      Apart(b) }

\* the AI's turn in a match against the AI, its timer run out: handleAIMove
\* is about to call the planner
InitPlanner ==
  /\ gameState \in
       { [initialGameState(VS_AI) EXCEPT !.balls = b, !.currentTeam = 2] :
           b \in PlannerLayouts }
  /\ gameMode = VS_AI
  /\ showGameModeSelection = FALSE
  /\ isDragging = FALSE
  /\ dragVector = <<0, 0>>
  /\ isAiProcessing = TRUE
  /\ gameOver = FALSE
  /\ winner = 0
  /\ aiTimeout = FALSE
  /\ animationFrame = FALSE
  /\ effectPending = FALSE
  /\ launches = 0
  /\ launchTeam = 0
  /\ lastEvent = "request"
  /\ lastTick = NoTick
  /\ playerTeam = 0
  /\ isMyTurn = TRUE
  /\ callbackTeam = 1
  /\ showMatchmakingQueue = FALSE
  /\ moveTimer = FALSE
  /\ inFlight = << >>
  /\ peerSynced = FALSE
  /\ keptBack = << >>
  /\ sentState = << >>
  /\ replaced = << >>
  /\ aiMove = NoMove
  /\ move = NoRemoteMove
  /\ plan = NoPlan
  /\ matchmakingQueue = << >>
  /\ gameRooms = [roomId \in RoomIds |-> NoRoom]
  /\ sockets = [socket \in Sockets |-> "new"]
  /\ emitted = {}
  /\ losingTeam = 0

\* calculateAIMove(gameState, aiDifficulty, containerRef, selectPlayer) is
\* called on the board as shown: the plan it returns, and the disc it has
\* selectPlayer select
planRequest ==
  /\ lastEvent = "request"
  /\ plan = NoPlan
  /\ plan' = calculateAIMove(
               gameState,
               ContainerWidth(showGameModeSelection, gameOver) \div S,
               ContainerHeight(showGameModeSelection, gameOver) \div S)
  /\ gameState' = IF plan' # NoPlan /\ MaySelect(gameState, plan'.player)
                  THEN [gameState EXCEPT !.selectedPlayerId = plan'.player]
                  ELSE gameState
  /\ lastEvent' = "plan"
  /\ UNCHANGED << gameMode, showGameModeSelection, isDragging, dragVector,
                  isAiProcessing, gameOver, winner, aiTimeout,
                  animationFrame, effectPending, launches, launchTeam,
                  lastTick, playerTeam, isMyTurn, callbackTeam,
                  showMatchmakingQueue, moveTimer, inFlight, peerSynced,
                  aiMove, move, keptBack, sentState,
                  replaced, serverVars >>

NextPlanner == planRequest

SpecPlanner == InitPlanner /\ [][NextPlanner]_vars

\* ================================================ the server (index.js)
\* lastActivity and turnStartTime are timestamps no handler branches on.
\* room.spectators is only ever pushed to and asked whether it is empty: the
\* field is 0 for an empty list and 1 for any other.
\* A room whose entry is deleted takes its pending timer with it: the timer
\* would find no room and return.
\* the gameState objects a client sends: who is to act, and the score
Snapshots ==
  { [currentTeam |-> team, score |-> score] :
      team \in {1, 2},
      score \in { NoScore, [team1 |-> 1, team2 |-> 0],
                  [team1 |-> 0, team2 |-> 1] } }

\* move.playerId of the moves a client sends
MovePlayerIds == { "team1-player1", "team2-player1" }

\* what every step of the client leaves alone is in the handlers of the
\* server what the server leaves alone
clientVars == << gameState, gameMode, showGameModeSelection, isDragging,
                 dragVector, isAiProcessing, gameOver, winner, aiTimeout,
                 animationFrame, effectPending, launches, launchTeam,
                 lastTick, playerTeam, isMyTurn, callbackTeam,
                 showMatchmakingQueue, moveTimer, inFlight, peerSynced,
                 aiMove, move, plan, keptBack,
                 sentState, replaced >>

\* an event emitted to one socket, and an event emitted to a room
ToSocket(event, socket, team) ==
  [event |-> event, socket |-> socket, room |-> 0, team |-> team]
ToRoom(event, roomId, team) ==
  [event |-> event, socket |-> "", room |-> roomId, team |-> team]

\* gameRooms[roomId] is a room
IsRoom(roomId) == gameRooms[roomId] # NoRoom

\* room.players.findIndex(p => p.id === socket.id), 0 for -1
PlayerIndex(r, socket) ==
  IF \E k \in DOMAIN r.players : r.players[k].id = socket
  THEN CHOOSE k \in DOMAIN r.players :
         /\ r.players[k].id = socket
         /\ \A m \in DOMAIN r.players : r.players[m].id = socket => k <= m
  ELSE 0

\* room.players.splice(playerIndex, 1)
Splice(players, index) ==
  [k \in 1..(Len(players) - 1) |->
     IF k < index THEN players[k] ELSE players[k + 1]]

\* room.players.forEach(player => { player.ready = false; })
NotReady(players) ==
  [k \in DOMAIN players |-> [players[k] EXCEPT !.ready = FALSE]]

\* uuidv4().substring(0, 6): an id no room has
FreshRoomId == CHOOSE roomId \in RoomIds :
                 /\ ~IsRoom(roomId)
                 /\ \A other \in RoomIds : ~IsRoom(other) => roomId <= other

\* startTurnTimer(roomId, currentTeam): the pending timer is cleared and a
\* new one is set, whose callback holds currentTeam
startTurnTimer(r, currentTeam) == [r EXCEPT !.turnTimer = currentTeam]

\* the timer part of the gameStateUpdate handler: the timer is started
\* again if the room had a state and its team differs from the new one
ResetOnTurnChange(r, prevTeam, currentTeam) ==
  IF prevTeam # 0 /\ prevTeam # currentTeam
  THEN startTurnTimer(r, currentTeam)
  ELSE r

\* io.on('connection'): a socket connects, with an id of its own
connection(socket) ==
  /\ sockets[socket] = "new"
  /\ sockets' = [sockets EXCEPT ![socket] = "connected"]
  /\ emitted' = {}
  /\ losingTeam' = 0
  /\ lastEvent' = "connection"
  /\ UNCHANGED << matchmakingQueue, gameRooms, clientVars >>

\* a room for two matched sockets that puts the later joiner first
MatchedRoomLaterFirst(player1Id, player2Id) ==
  [players |-> << [id |-> player2Id, team |-> 1, ready |-> FALSE],
                  [id |-> player1Id, team |-> 2, ready |-> FALSE] >>,
   gameState |-> << >>,
   lastMove |-> "none",
   turnTimer |-> 0,
   spectators |-> 0]

\* the room joinMatchmaking creates for the two sockets it has taken off
\* the queue
MatchedRoom(player1Id, player2Id) ==
  [players |-> << [id |-> player1Id, team |-> 1, ready |-> FALSE],
                  [id |-> player2Id, team |-> 2, ready |-> FALSE] >>,
   gameState |-> << >>,
   lastMove |-> "none",
   turnTimer |-> 0,
   spectators |-> 0]

\* socket.on('joinMatchmaking'): the socket is queued unless it is already;
\* with two in the queue they are taken off it and a room is made for them;
\* if both are connected they are matched, the game starts and the turn
\* timer is started for team 1; if not, the connected one is put back at
\* the head of the queue and the room is deleted
joinMatchmaking(socket) ==
  /\ sockets[socket] = "connected"
  /\ \/ Len(matchmakingQueue) = 0
     \/ \E roomId \in RoomIds : ~IsRoom(roomId)
  /\ IF \E k \in DOMAIN matchmakingQueue : matchmakingQueue[k] = socket
     THEN /\ emitted' = {}
          /\ UNCHANGED << matchmakingQueue, gameRooms >>
     ELSE IF Len(matchmakingQueue) + 1 < 2
     THEN /\ matchmakingQueue' = Append(matchmakingQueue, socket)
          /\ emitted' = { ToSocket("joinedMatchmaking", socket, 0) }
          /\ UNCHANGED gameRooms
     ELSE LET queue == Append(matchmakingQueue, socket)
              player1Id == queue[1]
              player2Id == queue[2]
              rest == Tail(Tail(queue))
          IN  IF sockets[player1Id] = "connected"
                 /\ sockets[player2Id] = "connected"
              THEN /\ matchmakingQueue' = rest
                   /\ gameRooms' =
                        [gameRooms EXCEPT ![FreshRoomId] =
                           startTurnTimer(MatchedRoom(player1Id, player2Id),
                                          1)]
                   /\ emitted' =
                        { ToSocket("joinedMatchmaking", socket, 0),
                          ToSocket("matchFound", player1Id, 1),
                          ToSocket("matchFound", player2Id, 2),
                          ToRoom("gameStart", FreshRoomId, 0),
                          ToRoom("turnTimerStarted", FreshRoomId, 1) }
              ELSE /\ matchmakingQueue' =
                        (IF sockets[player2Id] = "connected"
                         THEN << player2Id >> ELSE << >>)
                        \o (IF sockets[player1Id] = "connected"
                            THEN << player1Id >> ELSE << >>)
                        \o rest
                   /\ emitted' = { ToSocket("joinedMatchmaking", socket, 0) }
                   /\ UNCHANGED gameRooms
  /\ losingTeam' = 0
  /\ lastEvent' = "joinMatchmaking"
  /\ UNCHANGED << sockets, clientVars >>

\* socket.on('leaveMatchmaking')
leaveMatchmaking(socket) ==
  /\ sockets[socket] = "connected"
  /\ \E k \in DOMAIN matchmakingQueue : matchmakingQueue[k] = socket
  /\ matchmakingQueue' = Splice(matchmakingQueue,
                                CHOOSE k \in DOMAIN matchmakingQueue :
                                  /\ matchmakingQueue[k] = socket
                                  /\ \A m \in DOMAIN matchmakingQueue :
                                       matchmakingQueue[m] = socket => k <= m)
  /\ emitted' = { ToSocket("leftMatchmaking", socket, 0) }
  /\ losingTeam' = 0
  /\ lastEvent' = "leaveMatchmaking"
  /\ UNCHANGED << gameRooms, sockets, clientVars >>

\* socket.on('createRoom'): a room with the socket as its one player, of
\* team 1
createRoom(socket) ==
  /\ sockets[socket] = "connected"
  /\ \E roomId \in RoomIds : ~IsRoom(roomId)
  /\ gameRooms' = [gameRooms EXCEPT ![FreshRoomId] =
                     [players |-> << [id |-> socket, team |-> 1,
                                      ready |-> FALSE] >>,
                      gameState |-> << >>,
                      lastMove |-> "none",
                      turnTimer |-> 0,
                      spectators |-> 0]]
  /\ emitted' = { ToSocket("roomCreated", socket, 1) }
  /\ losingTeam' = 0
  /\ lastEvent' = "createRoom"
  /\ UNCHANGED << matchmakingQueue, sockets, clientVars >>

\* socket.on('joinRoom'): no such room is an error; a room of two takes the
\* socket as a spectator; any other room takes it as a player of team 2
joinRoom(socket, roomId) ==
  /\ sockets[socket] = "connected"
  /\ IF ~IsRoom(roomId)
     THEN /\ emitted' = { ToSocket("error", socket, 0) }
          /\ UNCHANGED gameRooms
     ELSE IF Len(gameRooms[roomId].players) >= 2
     THEN /\ gameRooms' = [gameRooms EXCEPT ![roomId].spectators = 1]
          /\ emitted' = { ToSocket("joinedAsSpectator", socket, 0),
                          ToRoom("spectatorJoined", roomId, 0) }
     ELSE /\ gameRooms' = [gameRooms EXCEPT ![roomId].players =
                             Append(@, [id |-> socket, team |-> 2,
                                        ready |-> FALSE])]
          /\ emitted' = { ToSocket("roomJoined", socket, 2),
                          ToRoom("playerJoined", roomId, 2) }
  /\ losingTeam' = 0
  /\ lastEvent' = "joinRoom"
  /\ UNCHANGED << matchmakingQueue, sockets, clientVars >>

\* socket.on('playerReady'): the player of the socket is ready; when both
\* are, gameStart is emitted, and no timer is started
playerReady(socket, roomId) ==
  /\ sockets[socket] = "connected"
  /\ IsRoom(roomId)
  /\ PlayerIndex(gameRooms[roomId], socket) # 0
  /\ gameRooms' = [gameRooms EXCEPT
                     ![roomId].players[PlayerIndex(gameRooms[roomId],
                                                   socket)].ready = TRUE]
  /\ emitted' =
       { ToRoom("playerStatusUpdate", roomId, 0) }
         \cup IF /\ Len(gameRooms'[roomId].players) = 2
                 /\ \A k \in DOMAIN gameRooms'[roomId].players :
                      gameRooms'[roomId].players[k].ready
              THEN { ToRoom("gameStart", roomId, 0) }
              ELSE {}
  /\ losingTeam' = 0
  /\ lastEvent' = "playerReady"
  /\ UNCHANGED << matchmakingQueue, sockets, clientVars >>

\* socket.on('gameMove'): the move is kept as lastMove and relayed; the
\* timer is left alone
gameMove(socket, roomId, playerId) ==
  /\ sockets[socket] = "connected"
  /\ IsRoom(roomId)
  /\ PlayerIndex(gameRooms[roomId], socket) # 0
  /\ gameRooms' = [gameRooms EXCEPT ![roomId].lastMove = playerId]
  /\ emitted' = { ToRoom("opponentMove", roomId, 0) }
  /\ losingTeam' = 0
  /\ lastEvent' = "gameMove"
  /\ UNCHANGED << matchmakingQueue, sockets, clientVars >>

\* socket.on('gameStateUpdate'): the state is kept and relayed
gameStateUpdate(socket, roomId, snapshot) ==
  /\ sockets[socket] = "connected"
  /\ IsRoom(roomId)
  /\ PlayerIndex(gameRooms[roomId], socket) # 0
  /\ gameRooms' =
       [gameRooms EXCEPT ![roomId] =
          ResetOnTurnChange(
            [gameRooms[roomId] EXCEPT !.gameState = << snapshot >>],
            IF gameRooms[roomId].gameState = << >> THEN 0
            ELSE gameRooms[roomId].gameState[1].currentTeam,
            snapshot.currentTeam)]
  /\ emitted' =
       { ToRoom("gameStateUpdated", roomId, snapshot.currentTeam) }
         \cup IF gameRooms'[roomId].turnTimer # gameRooms[roomId].turnTimer
              THEN { ToRoom("turnTimerStarted", roomId,
                            snapshot.currentTeam) }
              ELSE {}
  /\ losingTeam' = 0
  /\ lastEvent' = "gameStateUpdate"
  /\ UNCHANGED << matchmakingQueue, sockets, clientVars >>

\* socket.on('gameOver'): gameEnded is emitted, the timer is cleared, the
\* players are not ready, the state is forgotten
serverGameOver(socket, roomId, winnerTeam) ==
  /\ sockets[socket] = "connected"
  /\ IsRoom(roomId)
  /\ PlayerIndex(gameRooms[roomId], socket) # 0
  /\ gameRooms' = [gameRooms EXCEPT
                     ![roomId].turnTimer = 0,
                     ![roomId].gameState = << >>,
                     ![roomId].players = NotReady(@)]
  /\ emitted' = { ToRoom("gameEnded", roomId, winnerTeam),
                  ToRoom("readyForMainMenu", roomId, 0) }
  /\ losingTeam' = 0
  /\ lastEvent' = "gameEnded"
  /\ UNCHANGED << matchmakingQueue, sockets, clientVars >>

\* leaveRoom(socket, roomId): with a game in progress and an opponent, the
\* opponent is told it has won; the player is removed; a room without
\* players and spectators is deleted
LeftRoom(r, socket) ==
  IF Len(r.players) = 1 /\ r.spectators = 0
  THEN NoRoom
  ELSE [r EXCEPT !.players = Splice(@, PlayerIndex(r, socket))]

\* the events leaveRoom emits
LeaveEvents(r, roomId, socket) ==
  { ToRoom("playerLeft", roomId, r.players[PlayerIndex(r, socket)].team) }
    \cup IF /\ r.gameState # << >>
            /\ \E k \in DOMAIN r.players : r.players[k].id # socket
         THEN { ToSocket("opponentDisconnected",
                         r.players[CHOOSE k \in DOMAIN r.players :
                                     /\ r.players[k].id # socket
                                     /\ \A m \in DOMAIN r.players :
                                          r.players[m].id # socket
                                            => k <= m].id,
                         r.players[CHOOSE k \in DOMAIN r.players :
                                     /\ r.players[k].id # socket
                                     /\ \A m \in DOMAIN r.players :
                                          r.players[m].id # socket
                                            => k <= m].team) }
         ELSE {}

\* socket.on('leaveRoom')
leaveRoom(socket, roomId) ==
  /\ sockets[socket] = "connected"
  /\ IsRoom(roomId)
  /\ PlayerIndex(gameRooms[roomId], socket) # 0
  /\ gameRooms' = [gameRooms EXCEPT
                     ![roomId] = LeftRoom(gameRooms[roomId], socket)]
  /\ emitted' = LeaveEvents(gameRooms[roomId], roomId, socket)
  /\ losingTeam' = 0
  /\ lastEvent' = "leaveRoom"
  /\ UNCHANGED << matchmakingQueue, sockets, clientVars >>

\* the room after the disconnect handler has passed it: the player of the
\* socket is removed, and a room without players is deleted
DisconnectedRoom(r, socket) ==
  IF r = NoRoom \/ PlayerIndex(r, socket) = 0
  THEN r
  ELSE IF Len(r.players) = 1
  THEN NoRoom
  ELSE [r EXCEPT !.players = Splice(@, PlayerIndex(r, socket))]

\* socket.on('disconnect'): in every room the socket is a player of, the
\* others are told playerDisconnected if the room has a state, and the
\* player is removed; the socket is taken off the queue
disconnect(socket) ==
  /\ sockets[socket] = "connected"
  /\ sockets' = [sockets EXCEPT ![socket] = "gone"]
  /\ gameRooms' = [roomId \in RoomIds |->
                     DisconnectedRoom(gameRooms[roomId], socket)]
  /\ emitted' = { ToRoom("playerDisconnected", roomId, 0) :
                    roomId \in { id \in RoomIds :
                                   /\ IsRoom(id)
                                   /\ PlayerIndex(gameRooms[id], socket) # 0
                                   /\ gameRooms[id].gameState # << >> } }
  /\ matchmakingQueue' =
       SelectSeq(matchmakingQueue, LAMBDA id : id # socket)
  /\ losingTeam' = 0
  /\ lastEvent' = "disconnect"
  /\ UNCHANGED clientVars

\* the pending turn timer of a room fires: handleTurnTimeout(roomId,
\* currentTeam) with the team the timer was started for; turnTimeout and
\* gameEnded are emitted, the players are not ready, and resetTurnTimer
\* starts a timer for the other team
handleTurnTimeout(roomId) ==
  /\ IsRoom(roomId)
  /\ gameRooms[roomId].turnTimer # 0
  /\ losingTeam' = gameRooms[roomId].turnTimer
  /\ gameRooms' =
       [gameRooms EXCEPT ![roomId] =
          startTurnTimer([gameRooms[roomId] EXCEPT !.players = NotReady(@)],
                         IF gameRooms[roomId].turnTimer = 1 THEN 2 ELSE 1)]
  /\ emitted' =
       { ToRoom("turnTimeout", roomId, gameRooms[roomId].turnTimer),
         ToRoom("gameEnded", roomId,
                IF gameRooms[roomId].turnTimer = 1 THEN 2 ELSE 1),
         ToRoom("turnTimerStarted", roomId,
                IF gameRooms[roomId].turnTimer = 1 THEN 2 ELSE 1),
         ToRoom("readyForRematch", roomId, 0) }
  /\ lastEvent' = "turnTimeout"
  /\ UNCHANGED << matchmakingQueue, sockets, clientVars >>

\* the socket is a player of some room
InRoom(socket) ==
  \E roomId \in RoomIds :
    IsRoom(roomId) /\ PlayerIndex(gameRooms[roomId], socket) # 0

\* a match between two sockets, from matchmaking to its end; a client asks
\* for a match from its menu, which it has left once it is in a room
NextServer ==
  \/ \E socket \in MatchSockets : connection(socket)
  \/ \E socket \in MatchSockets : ~InRoom(socket) /\ joinMatchmaking(socket)
  \/ \E socket \in MatchSockets : leaveMatchmaking(socket)
  \/ \E socket \in MatchSockets, roomId \in RoomIds :
       playerReady(socket, roomId)
  \/ \E socket \in MatchSockets, roomId \in RoomIds,
        playerId \in MovePlayerIds : gameMove(socket, roomId, playerId)
  \/ \E socket \in MatchSockets, roomId \in RoomIds,
        snapshot \in Snapshots : gameStateUpdate(socket, roomId, snapshot)
  \/ \E socket \in MatchSockets, roomId \in RoomIds, winnerTeam \in {1, 2} :
       serverGameOver(socket, roomId, winnerTeam)
  \/ \E roomId \in RoomIds : handleTurnTimeout(roomId)

SpecServer == Init /\ [][NextServer]_vars

\* sockets coming and going, rooms made and left, games under way; a
\* client asks for a match or a room from its menu, which it has left once
\* it is in a room
NextLobby ==
  \/ \E socket \in Sockets : connection(socket)
  \/ \E socket \in Sockets : disconnect(socket)
  \/ \E socket \in Sockets : ~InRoom(socket) /\ joinMatchmaking(socket)
  \/ \E socket \in Sockets : leaveMatchmaking(socket)
  \/ \E socket \in Sockets : ~InRoom(socket) /\ createRoom(socket)
  \/ \E socket \in Sockets, roomId \in RoomIds :
       ~InRoom(socket) /\ joinRoom(socket, roomId)
  \/ \E socket \in Sockets, roomId \in RoomIds : leaveRoom(socket, roomId)
  \/ \E socket \in Sockets, roomId \in RoomIds :
       gameStateUpdate(socket, roomId,
                       [currentTeam |-> 2, score |-> NoScore])

SpecLobby == Init /\ [][NextLobby]_vars

\* the matchmaking queue alone: sockets coming, queueing and going
NextQueue ==
  \/ \E socket \in Sockets : connection(socket)
  \/ \E socket \in Sockets : disconnect(socket)
  \/ \E socket \in Sockets : joinMatchmaking(socket)
  \/ \E socket \in Sockets : leaveMatchmaking(socket)

SpecQueue == Init /\ [][NextQueue]_vars

\* ================================================================ properties
\* what a step was
IsFrame(event) == event \in {"tick", "settle", "goal"}

ScoreOf(score, team) == IF team = 1 THEN score.team1 ELSE score.team2

\* The team that defends a goal is the team whose discs the layout puts
\* in that goal's half of the board.
InTopHalf(ball) == ball.pos.y < (fieldHeight * S) \div 2

TopDefender ==
  CHOOSE t \in {1, 2} :
    \A i \in DOMAIN initialBalls :
      (initialBalls[i].isPlayer /\ initialBalls[i].team = t)
        => InTopHalf(initialBalls[i])

BottomDefender ==
  CHOOSE t \in {1, 2} :
    \A i \in DOMAIN initialBalls :
      (initialBalls[i].isPlayer /\ initialBalls[i].team = t)
        => ~InTopHalf(initialBalls[i])

\* C1 (turn alternation): a launch and the frames of its motion leave the
\* acting team alone, and the frame in which the motion settles without a
\* goal hands the turn to the opponent of the team that launched.
C1_TurnAlternation ==
  [][ /\ (lastEvent' \in {"launch", "tick"}
            => gameState'.currentTeam = gameState.currentTeam)
      /\ (lastEvent' = "settle"
            => /\ gameState.currentTeam = launchTeam
               /\ gameState'.currentTeam = 3 - launchTeam
               /\ gameState'.score = gameState.score
               /\ ~gameState'.isMoving) ]_vars

\* a launch of team 1 has settled and team 2 is to act
C1_Witness ==
  /\ lastEvent = "settle"
  /\ launchTeam = 1
  /\ gameState.currentTeam = 2

\* C2 (AI-turn liveness), safety half: in AI mode, when team 2 is to act and
\* nothing moves, isAiProcessing is true only while the delayed planner
\* callback is pending.
C2_AiTimerPending ==
  ( /\ gameMode = VS_AI
    /\ ~showGameModeSelection
    /\ gameState.currentTeam = 2
    /\ ~gameState.isMoving
    /\ ~effectPending
    /\ isAiProcessing )
  => aiTimeout

\* C3 (scoring team): the frame that finds the Ball in a goal credits the
\* opponent of the team that defends that goal.
C3_ScoringTeamIsOpponent ==
  [][ lastEvent' = "goal" =>
        /\ (lastTick'.top =>
              ScoreOf(gameState'.score, 3 - TopDefender)
                = ScoreOf(gameState.score, 3 - TopDefender) + 1)
        /\ (lastTick'.bottom =>
              ScoreOf(gameState'.score, 3 - BottomDefender)
                = ScoreOf(gameState.score, 3 - BottomDefender) + 1) ]_vars

C6_MatchOverTerminal ==
  [][ /\ (IsFrame(lastEvent') /\ ~MatchDecided(gameState.score)
           /\ MatchDecided(gameState'.score))
          => /\ gameOver'
             /\ ScoreOf(gameState'.score, winner') >= WIN_SCORE
             /\ ScoreOf(gameState'.score, 3 - winner') < WIN_SCORE
      /\ (MatchDecided(gameState.score)
           /\ lastEvent' \notin {"restart", "startGame", "matchFound"})
          => /\ gameState'.score = gameState.score
             /\ gameState'.balls = gameState.balls
             /\ gameState'.currentTeam = gameState.currentTeam ]_vars

\* C7 (goal precedence): the frame whose position update leaves the Ball in
\* a goal mouth registers the goal in that frame, whether or not discs
\* still move, and when it is also the frame in which motion stops its
\* outcome is the round reset with team 1 to act, not a turn change.
C7_GoalPrecedence ==
  [][ (IsFrame(lastEvent') /\ (lastTick'.top \/ lastTick'.bottom)) =>
        /\ lastEvent' = "goal"
        /\ gameState'.score # gameState.score
        /\ gameState'.balls = initialBalls
        /\ gameState'.currentTeam = 1
        /\ ~gameState'.isMoving ]_vars

\* a goal was registered in the frame in which the motion of a launch of
\* team 1 stopped
C7_Witness ==
  /\ lastEvent = "goal"
  /\ ~lastTick.stillMoving
  /\ launchTeam = 1
  /\ gameState.currentTeam = 1

\* a goal was registered while discs were still moving
C7_GoalWhileMoving ==
  /\ lastEvent = "goal"
  /\ lastTick.stillMoving

\* a launch request names this disc: absent, not of the acting team, or
\* arriving while the discs move
Malformed(gs, id) ==
  \/ FindIndex(gs.balls, id) = 0
  \/ gs.balls[FindIndex(gs.balls, id)].team # gs.currentTeam
  \/ gs.isMoving

\* C8 (malformed launches are ignored): a drag release, an executeAIMove
\* call or a fallback launch whose disc is absent or not of the acting
\* team, or that arrives while the discs move, leaves the RoundState as
\* it was.
C8_MalformedLaunchIgnored ==
  [][ /\ (lastEvent' \in {"launch", "dragIgnored"}
           /\ Malformed(gameState, gameState.selectedPlayerId))
          => gameState' = gameState
      /\ (lastEvent' = "aiLaunch" /\ Malformed(gameState, aiMove.player))
          => gameState' = gameState
      /\ (lastEvent' = "aiFallback"
           /\ (FirstAiPlayer(gameState.balls) = 0
               \/ Malformed(gameState,
                     gameState.balls[FirstAiPlayer(gameState.balls)].id)))
          => gameState' = gameState ]_vars

\* C9 (selection invariant): selectedPlayerId is null or names a Player disc
\* of the acting team, and it is null right after every settle and reset.
C9_SelectionInvariant ==
  /\ \/ gameState.selectedPlayerId = "none"
     \/ \E i \in DOMAIN gameState.balls :
          /\ gameState.balls[i].id = gameState.selectedPlayerId
          /\ gameState.balls[i].isPlayer
          /\ gameState.balls[i].team = gameState.currentTeam
  /\ lastEvent \in {"settle", "goal", "restart", "startGame", "matchFound"}
       => gameState.selectedPlayerId = "none"

\* in an online match a disc of the acting team is selected while the
\* discs move
C9_Witness ==
  /\ gameMode = ONLINE
  /\ gameState.selectedPlayerId # "none"
  /\ gameState.isMoving
  /\ lastEvent = "tick"

\* C10 (motion flag): isMoving is true exactly when some disc has a
\* velocity component above MIN_VELOCITY_THRESHOLD.
C10_MovingIffVelocity ==
  gameState.isMoving <=> AnyMoving(gameState.balls)

\* C11 (AI delay cancellation): right after a restart, a new game, a goal
\* reset or a return to the menu no AI-delay callback is pending, and the
\* round a restart, a new game or a goal installs is the untouched layout:
\* no velocity, nothing selected, nothing moving.
C11_StaleAiCallbackCancelled ==
  lastEvent \in {"restart", "startGame", "goal", "menu"} =>
    /\ ~aiTimeout
    /\ lastEvent # "menu" =>
         /\ gameState.balls = initialBalls
         /\ gameState.selectedPlayerId = "none"
         /\ ~gameState.isMoving

\* a game against the AI is restarted after an AI turn had been detected
\* (isAiProcessing is still up), and the callback of that turn is gone
C11_Witness ==
  /\ lastEvent = "restart"
  /\ gameMode = VS_AI
  /\ isAiProcessing
  /\ ~aiTimeout

\* C12 (planner once per AI turn): the AI-delay timer is scheduled only
\* when no timer is pending and isAiProcessing is down, in Idle with team 2
\* to act; isAiProcessing, once up, comes down only when the turn of team 2
\* ends or a new game starts; and a launch is applied only to discs at rest,
\* so at most one per turn.
C12_PlannerOncePerTurn ==
  [][ /\ (effectPending' /\ ~effectPending) =>
           /\ ~aiTimeout
           /\ ~isAiProcessing
           /\ gameMode' = VS_AI
           /\ gameState'.currentTeam = 2
           /\ ~gameState'.isMoving
      /\ (isAiProcessing /\ ~isAiProcessing') =>
           \/ lastEvent' = "startGame"
           \/ /\ gameState.currentTeam = 2
              /\ gameState'.currentTeam = 1
      /\ lastEvent' = "launch" =>
           /\ ~gameState.isMoving
           /\ gameState'.currentTeam = gameState.currentTeam ]_vars

\* the motion of a launch settled in a game against the AI, team 2 is to
\* act and the AI-delay timer has been scheduled
C12_Witness ==
  /\ lastEvent = "settle"
  /\ gameMode = VS_AI
  /\ gameState.currentTeam = 2
  /\ aiTimeout

\* C13 (remote snapshot deferral): a snapshot with the local score that
\* arrives while the discs move is not applied in that step, and the frame
\* in which the motion settles leaves the match as that snapshot has it.
C13_RemoteSnapshotDeferred ==
  [][ /\ (/\ lastEvent' = "remoteState"
          /\ gameState.isMoving
          /\ Head(inFlight).score = gameState.score)
         => gameState' = gameState
      /\ (lastEvent' = "settle" /\ keptBack # << >>)
         => Shared(gameState') = Shared(keptBack[1]) ]_vars

\* C14: a remote snapshot whose score differs from the local score replaces
\* the whole local round state in the step that receives it, whether or not
\* local discs are moving: nothing of the previous state survives.
C14_ScoreChangeReplacesState ==
  [][ (/\ lastEvent' = "remoteState"
       /\ Head(inFlight).score # gameState.score)
      => gameState' = Head(inFlight) ]_vars

\* a snapshot with another score has replaced a local state in motion
C14_Witness ==
  /\ lastEvent = "remoteState"
  /\ replaced # << >>
  /\ replaced[1].score # gameState.score
  /\ replaced[1].isMoving
  /\ ~gameState.isMoving

\* C15: a remote move {playerId, playerPos, direction, power} that names a
\* disc of the round sets that disc's position to playerPos and its velocity
\* to exactly (direction.x * power, direction.y * power) and sets isMoving;
\* every other disc, the score and the acting team stay as they were. A move
\* that names no disc of the round leaves the round state unchanged.
C15_RemoteMoveApplied ==
  [][ lastEvent' = "remoteMove" =>
        IF \A j \in DOMAIN gameState.balls :
             gameState.balls[j].id # move.playerId
        THEN gameState' = gameState
        ELSE /\ gameState'.isMoving
             /\ gameState'.score = gameState.score
             /\ gameState'.currentTeam = gameState.currentTeam
             /\ DOMAIN gameState'.balls = DOMAIN gameState.balls
             /\ \A j \in DOMAIN gameState.balls :
                  IF gameState.balls[j].id = move.playerId
                  THEN /\ gameState'.balls[j].pos = move.playerPos
                       /\ gameState'.balls[j].vel.x * S =
                            move.direction.x * move.power
                       /\ gameState'.balls[j].vel.y * S =
                            move.direction.y * move.power
                  ELSE gameState'.balls[j] = gameState.balls[j] ]_vars

\* the move (-1, 0) with power 10 has been applied to team1-player1
C15_Witness ==
  /\ lastEvent = "remoteMove"
  /\ move # NoRemoteMove
  /\ move.playerId = "team1-player1"
  /\ move.direction = [x |-> 0 - S, y |-> 0]
  /\ move.power = 10 * S
  /\ gameState.isMoving
  /\ \E j \in DOMAIN gameState.balls :
       /\ gameState.balls[j].id = "team1-player1"
       /\ gameState.balls[j].pos = move.playerPos
       /\ gameState.balls[j].vel = [x |-> 0 - 10 * S, y |-> 0]

\* C16: in online mode every frame that registers a goal and every frame
\* that changes the acting team hands the full resulting round state to
\* updateGameState, and a frame that does neither sends no snapshot.
C16_SnapshotOnGoalOrTurnChange ==
  [][ (gameMode = ONLINE /\ lastEvent' \in {"tick", "settle", "goal"}) =>
        IF \/ gameState'.score # gameState.score
           \/ gameState'.currentTeam # gameState.currentTeam
        THEN sentState' = << gameState' >>
        ELSE sentState' = << >> ]_vars

\* a frame has settled the motion, changed the acting team and sent the
\* resulting state
C16_Witness ==
  /\ gameMode = ONLINE
  /\ lastEvent = "settle"
  /\ sentState = << gameState >>
  /\ gameState.currentTeam = 2

\* C17: a drag release with a disc of the acting team selected and a drag
\* of length d leaves the round state unchanged when min(d,
\* MAX_PULL_DISTANCE) < 5; otherwise it sets exactly the selected disc's
\* velocity to min(d, MAX_PULL_DISTANCE) * POWER_FACTOR along the drag, so
\* the speed never exceeds MAX_PULL_DISTANCE * POWER_FACTOR, sets isMoving,
\* and leaves the other discs, the score and the acting team as they were.
\* (d is the whole number with d * d = dx * dx + dy * dy: the drags of the
\* requests have whole lengths; velocities are compared up to the rounding
\* of the fixed-point direction.)
C17_HumanLaunchPower ==
  [][ (/\ lastEvent' \in {"launch", "dragIgnored"}
       /\ gameState.selectedPlayerId # "none") =>
        LET dx == dragVector[1]
            dy == dragVector[2]
            d == CHOOSE n \in 0..500 : n * n = dx * dx + dy * dy
            clamped == IF d < MAX_PULL_DISTANCE THEN d ELSE MAX_PULL_DISTANCE
        IN IF clamped < 5
           THEN gameState' = gameState
           ELSE /\ gameState'.isMoving
                /\ gameState'.score = gameState.score
                /\ gameState'.currentTeam = gameState.currentTeam
                /\ gameState'.selectedPlayerId = gameState.selectedPlayerId
                /\ DOMAIN gameState'.balls = DOMAIN gameState.balls
                /\ \A j \in DOMAIN gameState.balls :
                     IF gameState.balls[j].id = gameState.selectedPlayerId
                     THEN /\ gameState'.balls[j] =
                               [gameState.balls[j] EXCEPT
                                  !.vel = gameState'.balls[j].vel]
                          /\ Abs(gameState'.balls[j].vel.x * d * 100
                                 - dx * clamped * POWER_FACTOR_PCT * S)
                               <= RoundingTolerance * d * 100
                          /\ Abs(gameState'.balls[j].vel.y * d * 100
                                 - dy * clamped * POWER_FACTOR_PCT * S)
                               <= RoundingTolerance * d * 100
                          /\ gameState'.balls[j].vel.x
                                 * gameState'.balls[j].vel.x
                               + gameState'.balls[j].vel.y
                                 * gameState'.balls[j].vel.y
                               <= ((MAX_PULL_DISTANCE * POWER_FACTOR_PCT * S)
                                     \div 100)
                                  * ((MAX_PULL_DISTANCE * POWER_FACTOR_PCT
                                      * S) \div 100)
                     ELSE gameState'.balls[j] = gameState.balls[j] ]_vars

\* a release with a drag of 300 px has launched the selected disc with the
\* speed of MAX_PULL_DISTANCE: (18, 24) per frame
C17_Witness ==
  /\ lastEvent = "launch"
  /\ gameState.isMoving
  /\ \E j \in DOMAIN gameState.balls :
       /\ gameState.balls[j].id = gameState.selectedPlayerId
       /\ gameState.balls[j].team = gameState.currentTeam
       /\ gameState.balls[j].vel = [x |-> 18 * S, y |-> 24 * S]

\* C18: at the end of every frame every Player disc lies on the board:
\* radius <= x <= width - radius and radius <= y <= height - radius, with
\* the board's width and height (fieldWidth, fieldHeight).
C18_PlayersStayOnBoard ==
  lastEvent \in {"tick", "settle", "goal"} =>
    \A j \in DOMAIN gameState.balls :
      gameState.balls[j].isPlayer =>
        /\ gameState.balls[j].size \div 2 <= gameState.balls[j].pos.x
        /\ gameState.balls[j].pos.x <=
             fieldWidth * S - gameState.balls[j].size \div 2
        /\ gameState.balls[j].size \div 2 <= gameState.balls[j].pos.y
        /\ gameState.balls[j].pos.y <=
             fieldHeight * S - gameState.balls[j].size \div 2

\* a frame has put a Player disc that crossed the top or the bottom edge
\* inside the goal mouth back on the edge
C18_Witness ==
  /\ lastEvent = "tick"
  /\ \E j \in DOMAIN gameState.balls :
       /\ gameState.balls[j].isPlayer
       /\ gameState.balls[j].vel.y # 0
       /\ \/ gameState.balls[j].pos.y = gameState.balls[j].size \div 2
          \/ gameState.balls[j].pos.y =
               fieldHeight * S - gameState.balls[j].size \div 2
       /\ gameState.balls[j].pos.x >= (fieldWidth * S - GOAL_HEIGHT * S) \div 2
       /\ gameState.balls[j].pos.x <= (fieldWidth * S + GOAL_HEIGHT * S) \div 2

\* C19: a disc that crosses the top or the bottom edge inside the goal-width
\* segment is put back on the edge with its perpendicular velocity reflected
\* and scaled by WALL_BOUNCE_FACTOR if and only if it is a Player disc (the
\* Ball keeps its position and direction there); outside the segment, and
\* on the two side walls, every disc is reflected, the Ball included.
\* (Stated on the frames in which no two discs collide, so that a disc's
\* state before the move step is its state before the frame; the velocity
\* after the frame is damped, or zero once below the threshold.)
C19_GoalMouthReflection ==
  [][ (/\ lastEvent' \in {"tick", "settle"}
       /\ gameState.isMoving
       /\ Collide(gameState.balls) = gameState.balls) =>
        \A j \in DOMAIN gameState.balls :
          LET b == gameState.balls[j]
              a == gameState'.balls[j]
              w == ContainerWidth(showGameModeSelection, gameOver)
              h == ContainerHeight(showGameModeSelection, gameOver)
              inMouth == /\ b.pos.x + b.vel.x >= w \div 2 - (GOAL_HEIGHT * S) \div 2
                         /\ b.pos.x + b.vel.x <= w \div 2 + (GOAL_HEIGHT * S) \div 2
          IN /\ (b.pos.y + b.vel.y - b.size \div 2 < 0) =>
                  IF inMouth /\ ~b.isPlayer
                  THEN /\ a.pos.y = b.pos.y + b.vel.y
                       /\ a.vel.y \in {Damp(b.vel.y), 0}
                  ELSE /\ a.pos.y = b.size \div 2
                       /\ a.vel.y \in {Damp(Bounce(b.vel.y)), 0}
             /\ (b.pos.y + b.vel.y + b.size \div 2 > h) =>
                  IF inMouth /\ ~b.isPlayer
                  THEN /\ a.pos.y = b.pos.y + b.vel.y
                       /\ a.vel.y \in {Damp(b.vel.y), 0}
                  ELSE /\ a.pos.y = h - b.size \div 2
                       /\ a.vel.y \in {Damp(Bounce(b.vel.y)), 0}
             /\ (b.pos.x + b.vel.x - b.size \div 2 < 0) =>
                  /\ a.pos.x = b.size \div 2
                  /\ a.vel.x \in {Damp(Bounce(b.vel.x)), 0}
             /\ (b.pos.x + b.vel.x + b.size \div 2 > w) =>
                  /\ a.pos.x = w - b.size \div 2
                  /\ a.vel.x \in {Damp(Bounce(b.vel.x)), 0} ]_vars

\* a frame has let the Ball cross the top or the bottom edge: it lies beyond
\* the edge, inside the goal mouth, still moving away from the board
C19_Witness ==
  /\ lastEvent = "tick"
  /\ \E j \in DOMAIN gameState.balls :
       /\ ~gameState.balls[j].isPlayer
       /\ gameState.balls[j].pos.x >= (fieldWidth * S - GOAL_HEIGHT * S) \div 2
       /\ gameState.balls[j].pos.x <= (fieldWidth * S + GOAL_HEIGHT * S) \div 2
       /\ \/ /\ gameState.balls[j].pos.y < gameState.balls[j].size \div 2
             /\ gameState.balls[j].vel.y < 0
          \/ /\ gameState.balls[j].pos.y >
                  fieldHeight * S - gameState.balls[j].size \div 2
             /\ gameState.balls[j].vel.y > 0

\* the two statements of C20 for one resolved pair: discs before, discs
\* after, the pair's normal n; the tangent is (-n.y, n.x)
CollisionBounded(ball1, ball2, after1, after2, n) ==
  /\ Abs(NewNormal(Along(ball1.vel, n.x, n.y), Along(ball2.vel, n.x, n.y)))
       + Abs(NewNormal(Along(ball2.vel, n.x, n.y), Along(ball1.vel, n.x, n.y)))
     <= Abs(Along(ball1.vel, n.x, n.y)) + Abs(Along(ball2.vel, n.x, n.y))
  /\ Abs(Along(after1.vel, n.x, n.y)) + Abs(Along(after2.vel, n.x, n.y))
     <= Abs(Along(ball1.vel, n.x, n.y)) + Abs(Along(ball2.vel, n.x, n.y))
        + RoundingTolerance
  /\ Abs(Along(after1.vel, 0 - n.y, n.x) - Along(ball1.vel, 0 - n.y, n.x))
     <= RoundingTolerance
  /\ Abs(Along(after2.vel, 0 - n.y, n.x) - Along(ball2.vel, 0 - n.y, n.x))
     <= RoundingTolerance

\* C20: for every collision of two discs the frame resolves, the sum of the
\* magnitudes of the two normal components does not grow, |v1n'| + |v2n'| <=
\* |v1n| + |v2n|, and each disc's tangential component is unchanged. The
\* new normal components are the ones the response computes; the components
\* read back from the resulting velocities agree up to the rounding of the
\* fixed-point unit normal.
C20_MomentumBound ==
  \A k \in DOMAIN Pairs :
    ResolvePair(gameState.balls, Pairs[k][1], Pairs[k][2]) # gameState.balls =>
      CollisionBounded(
        gameState.balls[Pairs[k][1]], gameState.balls[Pairs[k][2]],
        ResolvePair(gameState.balls, Pairs[k][1], Pairs[k][2])[Pairs[k][1]],
        ResolvePair(gameState.balls, Pairs[k][1], Pairs[k][2])[Pairs[k][2]],
        PairNormal(gameState.balls[Pairs[k][1]], gameState.balls[Pairs[k][2]]))

\* a frame has left two discs overlapping, both moving along the pair's
\* normal and one of them across it, after an earlier collision has set the
\* Ball in motion
C20_Witness ==
  /\ lastEvent = "tick"
  /\ gameState.balls[1].vel # [x |-> 0, y |-> 0]
  /\ \E k \in DOMAIN Pairs :
       /\ ResolvePair(gameState.balls, Pairs[k][1], Pairs[k][2])
            # gameState.balls
       /\ Along(gameState.balls[Pairs[k][1]].vel,
                PairNormal(gameState.balls[Pairs[k][1]],
                           gameState.balls[Pairs[k][2]]).x,
                PairNormal(gameState.balls[Pairs[k][1]],
                           gameState.balls[Pairs[k][2]]).y) # 0
       /\ Along(gameState.balls[Pairs[k][2]].vel,
                PairNormal(gameState.balls[Pairs[k][1]],
                           gameState.balls[Pairs[k][2]]).x,
                PairNormal(gameState.balls[Pairs[k][1]],
                           gameState.balls[Pairs[k][2]]).y) # 0
       /\ Along(gameState.balls[Pairs[k][1]].vel,
                0 - PairNormal(gameState.balls[Pairs[k][1]],
                               gameState.balls[Pairs[k][2]]).y,
                PairNormal(gameState.balls[Pairs[k][1]],
                           gameState.balls[Pairs[k][2]]).x) # 0

\* C21: when two overlapping discs move along the contact normal with equal
\* and opposite velocities v and -v and no tangential component, the
\* collision response leaves disc 1 with -v * r and disc 2 with +v * r,
\* r = BALL_COLLISION_BOUNCE_FACTOR. (Stated for the pair of a request that
\* lies along x, where the normal is (1, 0).)
C21_HeadOnSwap ==
  [][ (/\ lastEvent' = "collide"
       /\ gameState.balls[3].pos.x - gameState.balls[2].pos.x = 30 * S
       /\ gameState.balls[3].pos.y = gameState.balls[2].pos.y
       /\ gameState.balls[2].vel.y = 0
       /\ gameState.balls[3].vel.y = 0
       /\ gameState.balls[2].vel.x # 0
       /\ gameState.balls[3].vel.x = 0 - gameState.balls[2].vel.x) =>
        /\ gameState'.balls[2].vel.y = 0
        /\ gameState'.balls[3].vel.y = 0
        /\ gameState'.balls[2].vel.x * 100 =
             (0 - gameState.balls[2].vel.x) * BALL_COLLISION_BOUNCE_FACTOR_PCT
        /\ gameState'.balls[3].vel.x * 100 =
             gameState.balls[2].vel.x * BALL_COLLISION_BOUNCE_FACTOR_PCT ]_vars

C23_CoincidentNoOp ==
  [][ (/\ lastEvent' = "collide"
       /\ Abs(gameState.balls[3].pos.x - gameState.balls[2].pos.x) < S
       /\ Abs(gameState.balls[3].pos.y - gameState.balls[2].pos.y) < S
       /\ (gameState.balls[3].pos.x - gameState.balls[2].pos.x)
            * (gameState.balls[3].pos.x - gameState.balls[2].pos.x)
          + (gameState.balls[3].pos.y - gameState.balls[2].pos.y)
            * (gameState.balls[3].pos.y - gameState.balls[2].pos.y)
          <= (S * S) \div 1000) =>
        /\ gameState'.balls[2] = gameState.balls[2]
        /\ gameState'.balls[3] = gameState.balls[3] ]_vars

\* the collision step has run on two discs 0.02 px apart along both axes,
\* moving against each other, and has left them as they were
C23_Witness ==
  /\ lastEvent = "collide"
  /\ gameState.balls[3].pos.x - gameState.balls[2].pos.x = (2 * S) \div 100
  /\ gameState.balls[3].pos.y - gameState.balls[2].pos.y = (2 * S) \div 100
  /\ gameState.balls[2].vel = [x |-> 10 * S, y |-> 0]
  /\ gameState.balls[3].vel = [x |-> 0 - 10 * S, y |-> 0]

\* C24: in a frame in which a disc takes part in no collision and touches
\* no wall, both velocity components are multiplied by DAMPING_FACTOR; in
\* the first frame after which both are at or below MIN_VELOCITY_THRESHOLD
\* in magnitude the velocity becomes exactly (0, 0), and it stays (0, 0);
\* after no frame is a component left non-zero on a disc whose components
\* are both at or below the threshold.
C24_PureDamping ==
  [][ (lastEvent' \in {"tick", "settle"} /\ gameState.isMoving) =>
        /\ \A j \in DOMAIN gameState'.balls :
             \/ gameState'.balls[j].vel = [x |-> 0, y |-> 0]
             \/ Abs(gameState'.balls[j].vel.x)
                  > (MIN_VELOCITY_THRESHOLD_PERMILLE * S) \div 1000
             \/ Abs(gameState'.balls[j].vel.y)
                  > (MIN_VELOCITY_THRESHOLD_PERMILLE * S) \div 1000
        /\ Collide(gameState.balls) = gameState.balls =>
             \A j \in DOMAIN gameState.balls :
               (/\ gameState.balls[j].pos.x + gameState.balls[j].vel.x
                     - gameState.balls[j].size \div 2 >= 0
                /\ gameState.balls[j].pos.x + gameState.balls[j].vel.x
                     + gameState.balls[j].size \div 2
                     <= ContainerWidth(showGameModeSelection, gameOver)
                /\ gameState.balls[j].pos.y + gameState.balls[j].vel.y
                     - gameState.balls[j].size \div 2 >= 0
                /\ gameState.balls[j].pos.y + gameState.balls[j].vel.y
                     + gameState.balls[j].size \div 2
                     <= ContainerHeight(showGameModeSelection, gameOver)) =>
                 IF /\ Abs(TDiv(gameState.balls[j].vel.x
                                * DAMPING_FACTOR_PERMILLE, 1000))
                        <= (MIN_VELOCITY_THRESHOLD_PERMILLE * S) \div 1000
                    /\ Abs(TDiv(gameState.balls[j].vel.y
                                * DAMPING_FACTOR_PERMILLE, 1000))
                        <= (MIN_VELOCITY_THRESHOLD_PERMILLE * S) \div 1000
                 THEN gameState'.balls[j].vel = [x |-> 0, y |-> 0]
                 ELSE gameState'.balls[j].vel =
                        [x |-> TDiv(gameState.balls[j].vel.x
                                    * DAMPING_FACTOR_PERMILLE, 1000),
                         y |-> TDiv(gameState.balls[j].vel.y
                                    * DAMPING_FACTOR_PERMILLE, 1000)] ]_vars

\* a launched disc has been damped to rest without leaving its column: the
\* frames have settled with team1-player3 above where it started
C24_Witness ==
  /\ lastEvent = "settle"
  /\ ~AnyMoving(gameState.balls)
  /\ gameState.balls[4].pos.x = initialBalls[4].pos.x
  /\ gameState.balls[4].pos.y < initialBalls[4].pos.y
  /\ \A j \in DOMAIN gameState.balls :
       j # 4 => gameState.balls[j].pos = initialBalls[j].pos

\* C25: the round reset is idempotent: applied again to the state a goal
\* frame has just produced, with no launch in between, it yields that same
\* state: the same disc ids and positions, zero velocities, team 1 to act,
\* no selection and the carried-over score.
C25_IdempotentReset ==
  lastEvent = "goal" =>
    /\ RoundReset(gameState, gameState.score) = gameState
    /\ RoundReset(RoundReset(gameState, gameState.score), gameState.score)
         = RoundReset(gameState, gameState.score)
    /\ gameState.balls = initialBalls
    /\ gameState.currentTeam = 1
    /\ gameState.selectedPlayerId = "none"
    /\ ~gameState.isMoving

\* a goal frame has reset the round while team 2 was acting, with a score
\* on the board
C25_Witness ==
  /\ lastEvent = "goal"
  /\ launchTeam = 2
  /\ gameState.score # [team1 |-> 0, team2 |-> 0]
  /\ gameState.balls = initialBalls

\* C29: the planner and the engine agree on the goal: every target point
\* the planner samples lies on a goal edge of the board, inside the goal
\* mouth the goal check of the frame uses, and that mouth is the one whose
\* entry by the ball credits team 2.
C29_TargetsInScoringMouth ==
  lastEvent = "plan" =>
    \A i \in DOMAIN TargetPoints(PlannerHeight(fieldHeight)) :
      \/ /\ TargetPoints(PlannerHeight(fieldHeight))[i].y = 0
         /\ InTopGoal([id |-> "ball",
                       pos |-> TargetPoints(PlannerHeight(fieldHeight))[i]],
                      ContainerWidth(showGameModeSelection, gameOver))
         /\ TopGoalScorer = 2
      \/ /\ TargetPoints(PlannerHeight(fieldHeight))[i].y
              = ContainerHeight(showGameModeSelection, gameOver)
         /\ InBottomGoal([id |-> "ball",
                          pos |-> TargetPoints(PlannerHeight(fieldHeight))[i]],
                         ContainerWidth(showGameModeSelection, gameOver),
                         ContainerHeight(showGameModeSelection, gameOver))
         /\ BottomGoalScorer = 2

\* the distance from point to the closed segment from startPos to endPos:
\* to the nearest point of the line within the segment, which is an end of
\* the segment when the foot of the perpendicular falls outside it
SegmentDistance(point, startPos, endPos) ==
  LET pathLength == Distance(startPos, endPos)
      unit == UnitVector(startPos, endPos, pathLength)
      along == ((point.x - startPos.x) * unit.x
                  + (point.y - startPos.y) * unit.y) \div S
  IN  Distance(point,
               ClosestPoint(startPos, unit, Max(0, Min(pathLength, along))))

\* the paths calculateAIMove hands to isPathClear on a board: when a disc
\* of team 2 is within reach of the ball, ball to target for every target,
\* ball to wall point for every valid bounce, and wall point to target for
\* every valid bounce whose first part was found clear
PlannerPaths(balls, width, height) ==
  LET ball == balls[FindIndex(balls, "ball")]
      inReach == \E k \in DOMAIN TeamPlayers(balls, 2) :
                   Distance(balls[TeamPlayers(balls, 2)[k]].pos, ball.pos)
                     <= (MAX_PULL_DISTANCE * S * 12) \div 10
      bounces == { bounce \in (1..10) \X (1..11) :
                     isBankShotGeometricallyValid(
                       ball.pos, WallPoints(width, height)[bounce[1]],
                       TargetPoints(height)[bounce[2]], width, height) }
  IN  IF ~inReach
      THEN {}
      ELSE { [start |-> ball.pos, end |-> TargetPoints(height)[t]] :
               t \in 1..11 }
             \cup { [start |-> ball.pos,
                     end |-> WallPoints(width, height)[bounce[1]]] :
                      bounce \in bounces }
             \cup { [start |-> WallPoints(width, height)[bounce[1]],
                     end |-> TargetPoints(height)[bounce[2]]] :
                      bounce \in { b \in bounces :
                                     isPathClear(
                                       ball.pos,
                                       WallPoints(width, height)[b[1]],
                                       Obstacles(balls), BALL_SIZE) } }

\* C28: isPathClear(start, end, obstacles, BALL_SIZE) returns true if and
\* only if every obstacle's centre is at least BALL_SIZE / 2 plus the
\* obstacle's radius away from the closed segment from start to end, the
\* parts of it nearest its two ends included: on every path the planner has
\* tested for a plan.
C28_PathClearIffSegmentFree ==
  lastEvent = "plan" =>
    \A path \in PlannerPaths(gameState.balls, PlannerWidth(fieldWidth),
                             PlannerHeight(fieldHeight)) :
      isPathClear(path.start, path.end, Obstacles(gameState.balls), BALL_SIZE)
        <=> \A k \in DOMAIN Obstacles(gameState.balls) :
              SegmentDistance(Obstacles(gameState.balls)[k].pos,
                              path.start, path.end)
                >= (BALL_SIZE * S) \div 2
                     + Obstacles(gameState.balls)[k].radius

\* C26: the planner always produces a plan: called with no disc moving,
\* team 2 to act, the ball on the board and at least one Player disc of
\* team 2, calculateAIMove returns a plan, and the plan's disc is a Player
\* disc of team 2; when no direct shot and no bank shot passes its
\* conditions, the disc is the disc of team 2 nearest the ball.
C26_PlannerAlwaysPlans ==
  (/\ lastEvent = "plan"
   /\ ~gameState.isMoving
   /\ gameState.currentTeam = 2
   /\ FindIndex(gameState.balls, "ball") # 0
   /\ TeamPlayers(gameState.balls, 2) # << >>)
    => /\ plan # NoPlan
       /\ FindIndex(gameState.balls, plan.player) # 0
       /\ gameState.balls[FindIndex(gameState.balls, plan.player)].isPlayer
       /\ gameState.balls[FindIndex(gameState.balls, plan.player)].team = 2
       /\ ScoredShots(gameState.balls, PlannerWidth(fieldWidth),
                      PlannerHeight(fieldHeight)) = {}
            => \A k \in DOMAIN TeamPlayers(gameState.balls, 2) :
                 Distance(gameState.balls[FindIndex(gameState.balls,
                                                    plan.player)].pos,
                          gameState.balls[FindIndex(gameState.balls,
                                                    "ball")].pos)
                   <= Distance(gameState.balls[
                                 TeamPlayers(gameState.balls, 2)[k]].pos,
                               gameState.balls[FindIndex(gameState.balls,
                                                         "ball")].pos)

\* the planner has fallen back, no shot passing its conditions, on a disc
\* that is not the first of team 2: team2-player2, nearer the ball than the
\* other two
C26_Witness ==
  /\ lastEvent = "plan"
  /\ ScoredShots(gameState.balls, PlannerWidth(fieldWidth),
                 PlannerHeight(fieldHeight)) = {}
  /\ plan.player = "team2-player2"
  /\ ~plan.bank
  /\ gameState.selectedPlayerId = "team2-player2"
  /\ \A k \in DOMAIN TeamPlayers(gameState.balls, 2) :
       gameState.balls[TeamPlayers(gameState.balls, 2)[k]].id
           # "team2-player2"
         => Distance(gameState.balls[TeamPlayers(gameState.balls, 2)[k]].pos,
                     gameState.balls[FindIndex(gameState.balls, "ball")].pos)
              > Distance(gameState.balls[FindIndex(gameState.balls,
                                                   "team2-player2")].pos,
                         gameState.balls[FindIndex(gameState.balls,
                                                   "ball")].pos)

\* the goal-mouth centres Scenario A can mean: the centre of the top mouth,
\* which the goal check of the frame credits to team 2, and the point the
\* planner calls goalCenter
ScenarioGoals ==
  { [x |-> (fieldWidth * S) \div 2, y |-> 0],
    [x |-> 0, y |-> GoalY(PlannerHeight(fieldHeight))] }

\* the angle between two bearings
AngleApart(a, b) == Min(Abs(a - b), 2 * PI - Abs(a - b))

\* the disc is on the line through the ball and the goal, beyond the ball
BehindBall(disc, ball, goal) ==
  /\ ((disc.pos.x - ball.pos.x) \div S) * ((ball.pos.y - goal.y) \div S)
       = ((disc.pos.y - ball.pos.y) \div S) * ((ball.pos.x - goal.x) \div S)
  /\ ((disc.pos.x - ball.pos.x) \div S) * ((ball.pos.x - goal.x) \div S)
       + ((disc.pos.y - ball.pos.y) \div S) * ((ball.pos.y - goal.y) \div S)
       > 0

\* Scenario A for a goal: the ball at the centre of the board, exactly one
\* disc of team 2 within reach of it, that disc behind the ball on the line
\* to the goal, and no disc of team 1 within the clearance of the segment
\* from the ball to the goal
ScenarioA(balls, goal) ==
  LET ball == balls[FindIndex(balls, "ball")]
      near == { k \in DOMAIN TeamPlayers(balls, 2) :
                 Distance(balls[TeamPlayers(balls, 2)[k]].pos, ball.pos)
                   <= (MAX_PULL_DISTANCE * S * 12) \div 10 }
  IN  /\ ball.pos = [x |-> (fieldWidth * S) \div 2,
                     y |-> (fieldHeight * S) \div 2]
      /\ Cardinality(near) = 1
      /\ \A k \in near : BehindBall(balls[TeamPlayers(balls, 2)[k]], ball, goal)
      /\ \A k \in DOMAIN Obstacles(balls) :
           SegmentDistance(Obstacles(balls)[k].pos, ball.pos, goal)
             >= (BALL_SIZE * S) \div 2 + Obstacles(balls)[k].radius

\* C27: Scenario A: the ball at the centre of the board, exactly one disc
\* of team 2 on the line through the ball and the centre of the goal mouth,
\* behind the ball and within reach, and no obstacles: the planner selects
\* a direct shot, not a bank shot, and the angle of its plan is the bearing
\* from the ball to the centre of the goal mouth, within a tolerance of
\* RoundingTolerance / S rad.
C27_ScenarioADirectShot ==
  lastEvent = "plan" =>
    \A goal \in ScenarioGoals :
      ScenarioA(gameState.balls, goal)
        => /\ plan # NoPlan
           /\ ~plan.bank
           /\ AngleApart(plan.angle,
                         Atan2(goal.y - (fieldHeight * S) \div 2,
                               goal.x - (fieldWidth * S) \div 2))
                <= RoundingTolerance

\* C30: the loser of a turn timeout is the acting team: whenever the turn
\* timer of the room expires, losingTeam is the currentTeam of the state
\* most recently relayed through the room, team 1 if none has been relayed
\* yet.
C30_TimeoutLoserIsActingTeam ==
  lastEvent = "turnTimeout" =>
    \A roomId \in RoomIds :
      ToRoom("turnTimeout", roomId, losingTeam) \in emitted
        => losingTeam = IF gameRooms[roomId].gameState = << >> THEN 1
                        ELSE gameRooms[roomId].gameState[1].currentTeam

\* C31: a timeout ends the game once: after the turn timer of the room has
\* expired and gameEnded has been emitted, no turn timer is pending for the
\* room, and the step that follows does not emit turnTimeout and gameEnded
\* for the room again.
C31_TimeoutEndsGameOnce ==
  [][\A roomId \in RoomIds :
       (\E team \in {1, 2} : ToRoom("turnTimeout", roomId, team) \in emitted)
         => /\ gameRooms[roomId].turnTimer = 0
            /\ \A team \in {1, 2} :
                 /\ ToRoom("turnTimeout", roomId, team) \notin emitted'
                 /\ ToRoom("gameEnded", roomId, team) \notin emitted']_vars

\* C32: forfeit notification: whenever a player leaves a room or disconnects
\* while the room has a game in progress and the other player is still in
\* it, the step emits opponentDisconnected to the remaining player, with
\* the team of the remaining player as the winner.
C32_ForfeitNotifiesRemainingPlayer ==
  [][\A socket \in Sockets, roomId \in RoomIds :
       /\ IsRoom(roomId)
       /\ PlayerIndex(gameRooms[roomId], socket) # 0
       /\ gameRooms[roomId].gameState # << >>
       /\ Len(gameRooms[roomId].players) = 2
       /\ \/ lastEvent' = "disconnect" /\ sockets'[socket] # sockets[socket]
          \/ /\ lastEvent' = "leaveRoom"
             /\ gameRooms'[roomId] = LeftRoom(gameRooms[roomId], socket)
       => \E k \in DOMAIN gameRooms[roomId].players :
            /\ gameRooms[roomId].players[k].id # socket
            /\ ToSocket("opponentDisconnected",
                        gameRooms[roomId].players[k].id,
                        gameRooms[roomId].players[k].team) \in emitted']_vars

\* C33: the matchmaking queue: after every joinMatchmaking, leaveMatchmaking
\* and disconnect the queue holds at most one socket and none twice; when a
\* connected socket joins a queue holding another connected socket, both
\* leave the queue and a new room holds exactly the two, the one that was
\* waiting as team 1 and the one that joined as team 2.
C33_QueuePairsOff ==
  [][/\ Len(matchmakingQueue') <= 1
     /\ \A k, m \in DOMAIN matchmakingQueue' :
          matchmakingQueue'[k] = matchmakingQueue'[m] => k = m
     /\ \A socket \in Sockets :
          /\ Len(matchmakingQueue) = 1
          /\ matchmakingQueue[1] # socket
          /\ sockets[matchmakingQueue[1]] = "connected"
          /\ lastEvent' = "joinMatchmaking"
          /\ ToSocket("joinedMatchmaking", socket, 0) \in emitted'
          => /\ matchmakingQueue' = << >>
             /\ \E roomId \in RoomIds :
                  /\ ~IsRoom(roomId)
                  /\ gameRooms'[roomId].players =
                       << [id |-> matchmakingQueue[1], team |-> 1,
                           ready |-> FALSE],
                          [id |-> socket, team |-> 2, ready |-> FALSE] >>
                  /\ \A other \in RoomIds \ {roomId} :
                       gameRooms'[other] = gameRooms[other]]_vars

\* two sockets have just been matched into a room while an earlier room of
\* a match still stands
C33_Witness ==
  /\ lastEvent = "joinMatchmaking"
  /\ matchmakingQueue = << >>
  /\ \E socket \in Sockets : ToSocket("matchFound", socket, 2) \in emitted
  /\ \E roomId \in RoomIds :
       /\ ToRoom("gameStart", roomId, 0) \in emitted
       /\ Len(gameRooms[roomId].players) = 2
       /\ gameRooms[roomId].players[1].team = 1
       /\ gameRooms[roomId].players[2].team = 2
       /\ \E other \in RoomIds \ {roomId} : IsRoom(other)

\* C34: room membership: after every createRoom, joinRoom, joinMatchmaking,
\* leaveRoom and disconnect, every room has at most two players, and the
\* two players of a room are one of team 1 and one of team 2.
C34_TwoPlayersTwoTeams ==
  \A roomId \in RoomIds :
    /\ Len(gameRooms[roomId].players) <= 2
    /\ Len(gameRooms[roomId].players) = 2
         => { gameRooms[roomId].players[1].team,
              gameRooms[roomId].players[2].team } = {1, 2}

\* hitAngle of a shot: the bearing from its disc to the impact point of the
\* direction the ball is to leave in (to the target, or to the wall point)
ShotHitAngle(balls, key, width, height) ==
  LET ballPos == balls[FindIndex(balls, "ball")].pos
      aim == IF key.wall = 0 THEN TargetPoints(height)[key.target]
             ELSE WallPoints(width, height)[key.wall]
  IN  HitAngle(balls[TeamPlayers(balls, 2)[key.p]].pos,
               ImpactPoint(ballPos,
                           UnitVector(ballPos, aim, Distance(ballPos, aim))))

\* C40: for every shot the planner scores, the difference d of the two
\* atan2 results, hitAngle - anglePlayerToBall, lies in (-2 pi, 2 pi),
\* normalizeAngle(d) lies in [-pi, pi], and the angleScore
\* 1 - |normalizeAngle(d)| / pi lies in [0, 1].
C40_NormalizedAngleInRange ==
  lastEvent = "plan" =>
    \A key \in { k \in ShotKeys(gameState.balls) :
                   ShotValid(gameState.balls, k, fieldWidth, fieldHeight) } :
      LET playerPos ==
            gameState.balls[TeamPlayers(gameState.balls, 2)[key.p]].pos
          ballPos == gameState.balls[FindIndex(gameState.balls, "ball")].pos
          hitAngle == ShotHitAngle(gameState.balls, key, fieldWidth,
                                   fieldHeight)
          d == hitAngle - Atan2(ballPos.y - playerPos.y,
                                ballPos.x - playerPos.x)
      IN  /\ d > 0 - 2 * PI
          /\ d < 2 * PI
          /\ normalizeAngle(d) >= 0 - PI
          /\ normalizeAngle(d) <= PI
          /\ AngleScore(hitAngle, playerPos, ballPos) >= 0
          /\ AngleScore(hitAngle, playerPos, ballPos) <= S

\* C37: the Ball stays on the board unless it scores: after every frame
\* that registers no goal the centre of the Ball lies in the board
\* rectangle, 0 <= x <= width and 0 <= y <= height, also when the Ball
\* meets the top or bottom edge with its x exactly on a goal post.
C37_BallOnBoardUnlessGoal ==
  lastEvent \in {"tick", "settle"} =>
    LET ball == gameState.balls[FindIndex(gameState.balls, "ball")]
    IN  /\ 0 <= ball.pos.x
        /\ ball.pos.x <= ContainerWidth(showGameModeSelection, gameOver)
        /\ 0 <= ball.pos.y
        /\ ball.pos.y <= ContainerHeight(showGameModeSelection, gameOver)

\* C38: wall reflection points inward: in every frame in which the move
\* step reflects a disc at a wall, the disc's velocity component
\* perpendicular to that wall is, after the frame, zero or directed into
\* the board; the disc the move step sees is the disc the collision step
\* has left, pushed apart from the discs it overlapped.
C38_ReflectionPointsInward ==
  [][ (/\ lastEvent' \in {"tick", "settle"}
       /\ gameState.isMoving
       /\ BoardShown(showGameModeSelection, gameOver)) =>
        \A j \in DOMAIN gameState.balls :
          LET b == Collide(gameState.balls)[j]
              a == gameState'.balls[j]
              w == ContainerWidth(showGameModeSelection, gameOver)
              h == ContainerHeight(showGameModeSelection, gameOver)
              x1 == b.pos.x + b.vel.x
              y1 == b.pos.y + b.vel.y
              solid == \/ b.isPlayer
                       \/ x1 < w \div 2 - (GOAL_HEIGHT * S) \div 2
                       \/ x1 > w \div 2 + (GOAL_HEIGHT * S) \div 2
          IN /\ (y1 - b.size \div 2 < 0 /\ solid) => a.vel.y >= 0
             /\ (y1 + b.size \div 2 > h /\ solid) => a.vel.y <= 0
             /\ (x1 - b.size \div 2 < 0) => a.vel.x >= 0
             /\ (x1 + b.size \div 2 > w) => a.vel.x <= 0 ]_vars

\* C39: resolving terminates: from every state with isMoving, with frames
\* run as long as one is requested and no launch or remote event, a state
\* without isMoving is reached (by settle or by goal), also when discs are
\* wedged against a wall or against each other; and while isMoving holds
\* and the board is shown, a frame is requested.
C39_ResolvingTerminates ==
  /\ [](gameState.isMoving /\ BoardShown(showGameModeSelection, gameOver)
          => animationFrame)
  /\ (gameState.isMoving ~> ~gameState.isMoving)

\* the frames have settled after a disc was driven into the gap between
\* two others and pushed both aside
C39_Witness ==
  /\ lastEvent = "settle"
  /\ ~gameState.isMoving
  /\ ~animationFrame
  /\ gameState.balls[2].pos.x < 100 * S
  /\ gameState.balls[4].pos.x > 150 * S
  /\ gameState.balls[3].pos.y > 250 * S

\* C36: score monotonicity: within one online match (no step that starts a
\* match, restarts it or leaves it) no step lowers the score of either
\* team, whether it is a frame or the arrival of a snapshot of the peer,
\* a snapshot sent before a goal and arriving after it included.
C36_ScoreNeverDecreases ==
  [][(/\ gameMode = ONLINE
      /\ lastEvent' \notin {"matchFound", "restart", "startOnlineGame",
                             "menu"})
       => /\ gameState'.score.team1 >= gameState.score.team1
          /\ gameState'.score.team2 >= gameState.score.team2]_vars

\* C35: in an online match, whenever the board of a client is at rest and
\* currentTeam is the team of that client, its isMyTurn flag is true, so
\* that handleInteractionEnd sends its next launch to the relay.
C35_IdleOwnTurnIsMyTurn ==
  (/\ gameMode = ONLINE
   /\ playerTeam # 0
   /\ ~showGameModeSelection
   /\ ~showMatchmakingQueue
   /\ ~gameOver
   /\ ~gameState.isMoving
   /\ gameState.currentTeam = playerTeam)
    => isMyTurn

====
